---- MODULE Spec2Model ----
(***************************************************************************)
(* Triage submission pipeline of the patient-facing client:                *)
(*   client/app/triage/page.tsx   the Triage form                          *)
(*   client/lib/api.ts            analyzePatient                           *)
(*   unnamed/part_003             ConditionSelect, FileUpload              *)
(*   client/components/triage/SymptomSelect.tsx                            *)
(*   unnamed/part_002             useUserStore                             *)
(*   client/app/result/page.tsx   ResultPage                               *)
(* and the session around it:                                              *)
(*   client/components/result/VitalViz.tsx   AuthProvider                  *)
(*   unnamed/part_004             UserProfile (the profile panel)          *)
(*   client/app/dashboard/page.tsx   DashboardPage                        *)
(*   client/app/assistant/page.tsx   AssistantPage                        *)
(*   client/app/page.tsx, client/app/onboarding/page.tsx                   *)
(* Strings are TLC strings; arrays are sequences; null is NULL.            *)
(***************************************************************************)
EXTENDS Integers, Sequences, FiniteSets, TLC

VARIABLES
    variant,        \* which revision of Triage is mounted (see Variants)
    symptoms,       \* useState<string[]>
    conditions,     \* useState<string[]>
    bp,             \* useState("")
    heartRate,      \* useState("")
    temperature,    \* useState("")
    file,           \* useState<File | null>
    loading,        \* useState(false): the in-flight flag
    error,          \* useState("")
    store,          \* useUserStore: uid, age, gender, triageResult, ...
    route,          \* the router's current path
    mountId,        \* generation of the mounted Triage instance
    tasks,          \* pending handleSubmit invocations (async continuations)
    nRequests,      \* number of fetch calls issued so far
    nAccepted,      \* number of handleSubmit calls that passed validation
    history,        \* remote users/{uid}/history, per user
    profile,        \* remote users/{uid} document, per user
    nEdits,         \* edits made to the form so far
    last,           \* the step taken last (observation only)
    authLoading,    \* AuthProvider: useState(true)
    currentUser,    \* the identity provider's signed-in user ("" for null)
    authTasks,      \* onAuthStateChanged callback invocations not yet finished
    logouts,        \* handleLogout invocations awaiting auth.signOut()
    signIns,        \* handleGoogleSignIn invocations awaiting signInWithGoogle()
    nAuthEvents,    \* changes of the identity provider's user so far
    nNavs,          \* link navigations made so far
    listeners,      \* the onSnapshot registrations made so far
    viewHistory,    \* DashboardPage: useState<HistoryEntry[]>([])
    panelHistory,   \* UserProfile: useState<HistoryEntry[]>([])
    saves,          \* handleSave's setDoc calls that have not settled
    messages,       \* AssistantPage: useState<Message[]>([])
    input,          \* AssistantPage: useState("")
    isLoading,      \* AssistantPage: useState(false)
    chatTasks,      \* pending handleSendMessage invocations
    msgId           \* the module-level counter _msgId behind nextId()

vars == <<variant, symptoms, conditions, bp, heartRate, temperature, file,
          loading, error, store, route, mountId, tasks, nRequests, nAccepted,
          history, profile, nEdits, last,
          authLoading, currentUser, authTasks, logouts, signIns, nAuthEvents,
          nNavs, listeners, viewHistory, panelHistory, saves,
          messages, input, isLoading, chatTasks, msgId>>

formVars == <<symptoms, conditions, bp, heartRate, temperature, file,
              loading, error>>

\* the identity provider and the handlers waiting on it
authVars == <<authLoading, currentUser, authTasks, logouts, signIns, nAuthEvents>>

\* what a React commit recomputes: the page shown and its subscriptions
viewVars == <<route, listeners, viewHistory, panelHistory>>

\* the assistant page and the requests it has under way
chatVars == <<messages, input, isLoading, chatTasks, msgId>>

----------------------------------------------------------------------------
(* Bounds *)

MaxSubmits == 2     \* accepted submits explored
MaxTasks   == 2     \* handleSubmit invocations pending at once
MaxFiles   == 1     \* accepted file selections recorded in the store
MaxEdits   == 6     \* form edits explored in one run
MaxAuthEvents == 1  \* changes of the identity provider's user explored
MaxNavs    == 2     \* link navigations explored
MaxSaves   == 1     \* handleSave writes pending at once
MaxEntries == 2     \* history entries another tab's submissions add up to
MaxMessages == 4    \* chat messages given an id

----------------------------------------------------------------------------
(* Values *)

NULL == [t |-> "null"]
UNDEFINED == [t |-> "undefined"]

\* the revisions of Triage with the vitals fields and the result page:
\* 1 = triage/page.tsx 13-177 (leaves persistence to the server),
\* 3 = triage/page.tsx 355-558 (writes history and profile from the client)
Variants == {1, 3}
Users == {"u1"}

\* a second account of the identity provider, for a change of user without a
\* sign-out in between
OtherUsers == {"u2"}
AllUsers == Users \cup OtherUsers

SYMPTOM_OPTIONS == {"Fever", "Fatigue"}
CONDITION_OPTIONS == {"Diabetes", "None"}

ACCEPTED_TYPES ==
    {"application/pdf", "image/png", "image/jpeg", "image/webp", "image/gif"}

\* what the user can pick in the file dialog (UNDEFINED: dialog cancelled)
FileChoices ==
    { [name |-> "report.pdf", type |-> "application/pdf"],
      [name |-> "notes.txt", type |-> "text/plain"],
      UNDEFINED }

BpInputs == {"", " ", "120/80"}
HeartRateInputs == {"", "72"}
TemperatureInputs == {"", "37.0"}

\* the sessions a Triage page is mounted in: nobody signed in and no
\* demographics entered, or a signed-in user who went through onboarding
Sessions ==
    { [uid |-> "", age |-> "", gender |-> ""],
      [uid |-> "u1", age |-> "34", gender |-> "Female"] }

\* JSON values: a string, a number
str(s) == [t |-> "str", s |-> s]
num(n) == [t |-> "num", n |-> n]

\* the identity provider's users (firebaseUser): photoURL may be null
Accounts ==
    [ u \in AllUsers |->
        [ uid |-> u,
          displayName |-> IF u \in Users THEN str("Asha Rao") ELSE str("Ben Okoye"),
          email |-> IF u \in Users THEN str("asha@example.com") ELSE str("ben@example.com"),
          photoURL |-> NULL ] ]

\* users/{uid} when no document exists
NoDoc ==
    [ exists |-> FALSE, age |-> UNDEFINED, gender |-> UNDEFINED,
      sessionCount |-> UNDEFINED, lastRiskLevel |-> UNDEFINED ]

\* the users/{uid} documents a profile restore can meet: none, a complete
\* one, one with only an age and a sessionCount that is not a number,
\* one with neither age nor gender
UserDocs ==
    { NoDoc,
      [ exists |-> TRUE, age |-> str("34"), gender |-> str("Female"),
        sessionCount |-> num(2), lastRiskLevel |-> str("Low") ],
      [ exists |-> TRUE, age |-> str("41"), gender |-> UNDEFINED,
        sessionCount |-> str("3"), lastRiskLevel |-> UNDEFINED ],
      [ exists |-> TRUE, age |-> str(""), gender |-> NULL,
        sessionCount |-> num(1), lastRiskLevel |-> UNDEFINED ] }

\* what getDocFromCache settles with: a cached document, or a rejection
CacheReads ==
    { [rejected |-> FALSE, doc |-> d] : d \in UserDocs }
    \cup { [rejected |-> TRUE, doc |-> NoDoc] }

\* what the Onboarding form can hold when it is submitted
OnboardingInputs ==
    { [age |-> "", gender |-> "Female"], [age |-> "34", gender |-> "Female"] }

\* what the profile panel's edit fields can hold when Save is pressed
SaveInputs == { [age |-> "35", gender |-> "Female"] }

MSG_NO_SYMPTOM == "Please select at least one symptom or upload a medical report."
MSG_VITALS == "Blood Pressure, Heart Rate, and Temperature are required."
MSG_FILE == "Please select a valid file (PDF or image)."
MSG_FALLBACK == "Something went wrong."

ResultA ==
    [ ml_prediction |-> NULL,
      final_recommendation |-> [risk_level |-> "High", department |-> "Cardiology"],
      confidence_score |-> 80 ]
ResultB ==
    [ ml_prediction |-> [risk_level |-> "Low", department |-> "General"],
      final_recommendation |-> [risk_level |-> "Low", department |-> "General"],
      confidence_score |-> 55 ]
Results == {ResultA, ResultB}

\* JSON `detail` values a failure body can carry
Details ==
    { UNDEFINED,
      [t |-> "str", s |-> "no capacity"],
      [t |-> "str", s |-> ""],
      [t |-> "num", n |-> 0],
      [t |-> "num", n |-> 7] }

\* what fetch can settle with: a Response, or a rejection (network failure)
Responses ==
    { [kind |-> "response", ok |-> TRUE, status |-> 200, parses |-> TRUE,
       json |-> [t |-> "obj", detail |-> UNDEFINED, value |-> r] ] : r \in Results }
    \cup
    { [kind |-> "response", ok |-> TRUE, status |-> 200, parses |-> FALSE, json |-> NULL] }
    \cup
    { [kind |-> "response", ok |-> FALSE, status |-> 503, parses |-> TRUE,
       json |-> [t |-> "obj", detail |-> d, value |-> NULL] ] : d \in Details }
    \cup
    { [kind |-> "response", ok |-> FALSE, status |-> st, parses |-> p, json |-> NULL] :
         st \in {503, 422}, p \in BOOLEAN }
    \cup
    { [kind |-> "rejected", ok |-> FALSE, status |-> 0, parses |-> FALSE, json |-> NULL] }

MSG_PARSE == "Unexpected token < in JSON at position 0"
MSG_NETWORK == "Failed to fetch"
MSG_FIRESTORE == "Missing or insufficient permissions."

----------------------------------------------------------------------------
(* Pure helpers *)

RECURSIVE trimStart(_)
trimStart(s) ==
    IF Len(s) > 0 /\ SubSeq(s, 1, 1) = " " THEN trimStart(SubSeq(s, 2, Len(s))) ELSE s

RECURSIVE trimEnd(_)
trimEnd(s) ==
    IF Len(s) > 0 /\ SubSeq(s, Len(s), Len(s)) = " "
    THEN trimEnd(SubSeq(s, 1, Len(s) - 1)) ELSE s

\* String.prototype.trim
trim(s) == trimEnd(trimStart(s))

\* Array.prototype.join
RECURSIVE join(_, _)
join(arr, sep) ==
    IF Len(arr) = 0 THEN ""
    ELSE IF Len(arr) = 1 THEN arr[1]
    ELSE arr[1] \o sep \o join(Tail(arr), sep)

\* Array.prototype.includes
includes(arr, x) == \E i \in 1..Len(arr) : arr[i] = x

\* Array.prototype.filter((e) => e !== x)
RECURSIVE without(_, _)
without(arr, x) ==
    IF Len(arr) = 0 THEN <<>>
    ELSE IF arr[1] = x THEN without(Tail(arr), x)
    ELSE <<arr[1]>> \o without(Tail(arr), x)

\* JavaScript truthiness of a string
truthyStr(s) == s # ""

\* JavaScript truthiness / String() of a JSON detail value
truthy(d) ==
    CASE d.t = "undefined" -> FALSE
      [] d.t = "null" -> FALSE
      [] d.t = "str" -> d.s # ""
      [] d.t = "num" -> d.n # 0

\* a ?? b on a JSON string value
coalesce(v, d) == IF v.t \in {"null", "undefined"} THEN d ELSE v.s

jsString(d) ==
    CASE d.t = "str" -> d.s
      [] d.t = "num" -> ToString(d.n)
      [] OTHER -> d.t

----------------------------------------------------------------------------
(* client/lib/api.ts: analyzePatient *)

\* a || b on strings
orElse(a, b) == IF truthyStr(a) THEN a ELSE b

\* variant of FormData: symptoms and conditions sent as two joined fields
FormData_separateFields(p) ==
    << <<"age", orElse(p.age, "0")>>,
       <<"gender", orElse(p.gender, "Unknown")>>,
       <<"symptoms", join(p.symptoms, ", ")>>,
       <<"conditions", join(p.conditions, ", ")>> >>
    \o (IF truthyStr(p.bp) THEN << <<"bp", p.bp>> >> ELSE <<>>)
    \o (IF truthyStr(p.heartRate) THEN << <<"heart_rate", p.heartRate>> >> ELSE <<>>)
    \o (IF truthyStr(p.temperature) THEN << <<"temperature", p.temperature>> >> ELSE <<>>)
    \o (IF p.file # NULL THEN << <<"file", p.file.name>> >> ELSE <<>>)

\* the FormData built by analyzePatient, as the list of appended (name, value)
FormData(p) ==
    << <<"age", orElse(p.age, "0")>>,
       <<"gender", orElse(p.gender, "Unknown")>>,
       <<"symptoms", "Symptoms: " \o join(p.symptoms, ", ")
                     \o ". Pre-existing conditions: " \o join(p.conditions, ", ") \o ".">> >>
    \o (IF truthyStr(p.bp) THEN << <<"bp", p.bp>> >> ELSE <<>>)
    \o (IF truthyStr(p.heartRate) THEN << <<"heart_rate", p.heartRate>> >> ELSE <<>>)
    \o (IF truthyStr(p.temperature) THEN << <<"temperature", p.temperature>> >> ELSE <<>>)
    \o (IF p.file # NULL THEN << <<"file", p.file.name>> >> ELSE <<>>)

\* FormData.has / FormData.get
hasField(fd, name) == \E i \in 1..Len(fd) : fd[i][1] = name
getField(fd, name) == fd[CHOOSE i \in 1..Len(fd) : fd[i][1] = name][2]

\* variant of analyzePatient: the request is sent a second time
analyzePatient_twice(p) ==
    << [url |-> "/api/triage/analyze", method |-> "POST", body |-> FormData(p)],
       [url |-> "/api/triage/analyze", method |-> "POST", body |-> FormData(p)] >>

\* the fetch calls one analyzePatient invocation makes
analyzePatient(p) ==
    << [url |-> "/api/triage/analyze", method |-> "POST", body |-> FormData(p)] >>

\* variant of errorMessage: err?.detail ?? `...` (any detail that is present)
errorMessage_nullish(res) ==
    LET err == IF res.parses THEN res.json ELSE NULL
        detail == IF err.t = "obj" THEN err.detail ELSE UNDEFINED
    IN  IF detail # UNDEFINED THEN jsString(detail)
        ELSE "Request failed with status " \o ToString(res.status)

\* the message of the Error thrown for a non-ok response
errorMessage(res) ==
    LET err == IF res.parses THEN res.json ELSE NULL      \* res.json().catch(() => null)
        detail == IF err.t = "obj" THEN err.detail ELSE UNDEFINED   \* err?.detail
    IN  IF truthy(detail) THEN jsString(detail)
        ELSE "Request failed with status " \o ToString(res.status)

\* how the promise of analyzePatient settles once fetch has settled with res
analyzePatientSettle(res) ==
    IF res.kind = "rejected"
    THEN [throws |-> TRUE, isError |-> TRUE, message |-> MSG_NETWORK, value |-> NULL]
    ELSE IF ~res.ok
    THEN [throws |-> TRUE, isError |-> TRUE, message |-> errorMessage(res), value |-> NULL]
    ELSE IF ~res.parses
    THEN [throws |-> TRUE, isError |-> TRUE, message |-> MSG_PARSE, value |-> NULL]
    ELSE [throws |-> FALSE, isError |-> FALSE, message |-> "", value |-> res.json.value]

----------------------------------------------------------------------------
(* client/app/triage/page.tsx: Triage *)

\* revision 3 saves the session from the client when a user is signed in
persists(v, uid) == v = 3 /\ uid # ""

vitalsCompleteOf(b, h, t) == trim(b) # "" /\ trim(h) # "" /\ trim(t) # ""
vitalsComplete == vitalsCompleteOf(bp, heartRate, temperature)

\* variant of validate: the symptom-or-file check is missing
validate_skipSymptomCheck(syms, f, complete) ==
    IF ~complete THEN MSG_VITALS ELSE ""

\* variant of validate: the vitals check is missing
validate_skipVitalsCheck(syms, f, complete) ==
    IF Len(syms) = 0 /\ f = NULL THEN MSG_NO_SYMPTOM ELSE ""

\* the validation at the head of handleSubmit: the message set, "" when it passes
validate(syms, f, complete) ==
    IF Len(syms) = 0 /\ f = NULL THEN MSG_NO_SYMPTOM
    ELSE IF ~complete THEN MSG_VITALS
    ELSE ""

\* variant of disabled: disabled={!vitalsComplete}
disabled_ignoresLoading(ld, complete) == ~complete

\* the Submit button's disabled attribute
disabled(ld, complete) == ld \/ ~complete

\* variant of catchMessage: the generic message whatever was thrown
catchMessage_generic(err) == MSG_FALLBACK

\* catch (err): the message displayed
catchMessage(err) == IF err.isError THEN err.message ELSE MSG_FALLBACK

\* variant of setTriageResult: the result is not written
setTriageResult_dropped(st, data) == st

\* setTriageResult(data) on the store
setTriageResult(st, data) == [st EXCEPT !.triageResult = data]

----------------------------------------------------------------------------
(* unnamed/part_002: useUserStore *)

\* the state create() starts with
defaultStore ==
    [ displayName |-> "", email |-> "", photoURL |-> "", uid |-> "",
      age |-> "", gender |-> "", sessionCount |-> 0,
      triageResult |-> NULL, medicalHistory |-> <<>> ]

setUser(st, user) ==
    [st EXCEPT !.displayName = user.displayName, !.email = user.email,
               !.photoURL = user.photoURL, !.uid = user.uid]

setDemographics(st, demographics) ==
    [st EXCEPT !.age = demographics.age, !.gender = demographics.gender]

setSessionCount(st, count) == [st EXCEPT !.sessionCount = count]

\* variant of updateDemographics: the store waits for the remote write
updateDemographics_deferred(st, age, gender) == st

updateDemographics(st, age, gender) == [st EXCEPT !.age = age, !.gender = gender]

\* variant of clearUser: the result and the uploaded files survive
clearUser_keepsResult(st) ==
    [st EXCEPT !.displayName = "", !.email = "", !.photoURL = "", !.uid = "",
               !.age = "", !.gender = "", !.sessionCount = 0]

clearUser(st) ==
    [st EXCEPT !.displayName = "", !.email = "", !.photoURL = "", !.uid = "",
               !.age = "", !.gender = "", !.sessionCount = 0,
               !.triageResult = NULL, !.medicalHistory = <<>>]

\* the arguments handleSubmit passes to analyzePatient
submitParams ==
    [ age |-> store.age, gender |-> store.gender,
      symptoms |-> symptoms, conditions |-> conditions,
      bp |-> bp, heartRate |-> heartRate, temperature |-> temperature,
      file |-> file ]

\* the record kept in `last`: the handler that ran, how it ended, and for the
\* steps that have them the input (arg), the message of the error thrown (msg),
\* the value analyzePatient returned (data) and what the submission that just
\* ended had persisted (wrote)
Step(op, out) ==
    [op |-> op, out |-> out, arg |-> NULL, msg |-> "", data |-> NULL, wrote |-> {}]

initialForm ==
    /\ symptoms' = <<>>
    /\ conditions' = <<>>
    /\ bp' = ""
    /\ heartRate' = ""
    /\ temperature' = ""
    /\ file' = NULL
    /\ loading' = FALSE
    /\ error' = ""

----------------------------------------------------------------------------
(* React: what is mounted, and the effects a commit runs *)

\* DashboardPage 59-63: without a uid the dashboard sends the user to "/"
landing(r, uid, ld) == IF ~ld /\ r = "/dashboard" /\ uid = "" THEN "/" ELSE r

\* DashboardPage is the page of /dashboard and AssistantPage that of
\* /assistant; UserProfile sits in the layout of /triage; AuthProvider
\* renders none of them while it is loading
shows(owner, r, ld) ==
    ~ld /\ r = (IF owner = "dashboard" THEN "/dashboard"
                ELSE IF owner = "assistant" THEN "/assistant"
                ELSE "/triage")

\* onSnapshot(...): a registration that has delivered nothing yet
registration(owner, kind, uid) ==
    [ owner |-> owner, kind |-> kind, uid |-> uid, active |-> TRUE,
      unsubs |-> 0, failed |-> FALSE,
      seen |-> IF kind = "history" THEN -1 ELSE [t |-> "none"] ]

\* the onSnapshot calls of an owner's effects, in source order
subscribe(owner, uid) ==
    IF owner = "dashboard"
    THEN << registration(owner, "profile", uid), registration(owner, "history", uid) >>
    ELSE << registration(owner, "history", uid) >>

\* variant of unsubscribe: the cleanup does nothing
unsubscribe_forgotten(l) == l

\* return () => unsubscribe()
unsubscribe(l) == [l EXCEPT !.active = FALSE, !.unsubs = @ + 1]

cleanup(ls, owner) ==
    [ i \in DOMAIN ls |->
        IF ls[i].owner = owner /\ ls[i].active THEN unsubscribe(ls[i]) ELSE ls[i] ]

\* useEffect(..., [uid]) of an owner across one commit: the cleanup of the
\* previous run when the owner unmounts or uid changed, then the new run
effects(ls, owner, uid1, r1, ld1) ==
    LET m0 == shows(owner, route, authLoading)
        m1 == shows(owner, r1, ld1)
        changed == ~m0 \/ ~m1 \/ store.uid # uid1
        cleaned == IF m0 /\ changed THEN cleanup(ls, owner) ELSE ls
    IN  IF m1 /\ changed /\ uid1 # "" THEN cleaned \o subscribe(owner, uid1) ELSE cleaned

\* a component's history state across one commit: kept while the component
\* stays mounted with a uid, [] on mount and after setHistory([])
keptHistory(h, owner, uid1, r1, ld1) ==
    IF shows(owner, route, authLoading) /\ shows(owner, r1, ld1) /\ uid1 # ""
    THEN h ELSE <<>>

\* the state of a freshly mounted AssistantPage
initialChat ==
    /\ messages' = <<>>
    /\ input' = ""
    /\ isLoading' = FALSE

\* the pending invocations of an AssistantPage that has unmounted: their
\* state setters have no instance left to act on
orphaned(ts) == [ i \in DOMAIN ts |-> [ts[i] EXCEPT !.live = FALSE] ]

\* the commit after the store's uid, the route or AuthProvider's loading
\* became uid1, r1, ld1
commit(uid1, r1, ld1) ==
    LET r2 == landing(r1, uid1, ld1)
    IN  /\ route' = r2
        /\ listeners' = effects(effects(listeners, "dashboard", uid1, r2, ld1),
                                "panel", uid1, r2, ld1)
        /\ viewHistory' = keptHistory(viewHistory, "dashboard", uid1, r2, ld1)
        /\ panelHistory' = keptHistory(panelHistory, "panel", uid1, r2, ld1)
        /\ IF shows("panel", route, authLoading) /\ ~shows("panel", r2, ld1)
           THEN initialForm /\ mountId' = mountId + 1
           ELSE UNCHANGED <<formVars, mountId>>
        /\ IF shows("assistant", route, authLoading) /\ ~shows("assistant", r2, ld1)
           THEN initialChat /\ chatTasks' = orphaned(chatTasks) /\ msgId' = msgId
           ELSE UNCHANGED chatVars

----------------------------------------------------------------------------
(* Initial states *)

\* firebaseUser as the handlers read it: displayName ?? "", ...
providerUser(u) ==
    [ displayName |-> coalesce(Accounts[u].displayName, ""),
      email |-> coalesce(Accounts[u].email, ""),
      photoURL |-> coalesce(Accounts[u].photoURL, ""),
      uid |-> u ]

\* the store of a session: the signed-in user's identity and demographics
sessionStore(d) ==
    IF d.uid = "" THEN defaultStore
    ELSE setDemographics(setUser(defaultStore, providerUser(d.uid)), d)

Init ==
    /\ variant \in Variants
    /\ symptoms = <<>>
    /\ conditions = <<>>
    /\ bp = ""
    /\ heartRate = ""
    /\ temperature = ""
    /\ file = NULL
    /\ loading = FALSE
    /\ error = ""
    /\ \E d \in Sessions : store = sessionStore(d)
    /\ route = "/triage"
    /\ mountId = 1
    /\ tasks = <<>>
    /\ nRequests = 0
    /\ nAccepted = 0
    /\ history = [u \in Users |-> <<>>]
    /\ profile = [u \in Users |-> NoDoc]
    /\ nEdits = 0
    /\ last = Step("init", "")
    /\ authLoading = FALSE
    /\ currentUser = store.uid
    /\ authTasks = <<>>
    /\ logouts = 0
    /\ signIns = 0
    /\ nAuthEvents = 0
    /\ nNavs = 0
    /\ listeners = IF store.uid # "" THEN subscribe("panel", store.uid) ELSE <<>>
    /\ viewHistory = <<>>
    /\ panelHistory = <<>>
    /\ saves = <<>>
    /\ messages = <<>>
    /\ input = ""
    /\ isLoading = FALSE
    /\ chatTasks = <<>>
    /\ msgId = 0

remoteVars == <<history, profile>>
counters == <<nRequests, nAccepted>>

\* what the Triage form's own handlers leave alone
sessionVars == <<authVars, nNavs, listeners, viewHistory, panelHistory, saves>>

\* an edit of the mounted form, within the explored budget
editing ==
    /\ route = "/triage"
    /\ nEdits < MaxEdits
    /\ nEdits' = nEdits + 1
    /\ UNCHANGED sessionVars

----------------------------------------------------------------------------
(* Form widgets *)

\* variant of SymptomSelect.toggle: the symptom is added whether or not it
\* is selected
toggleSymptomOf_appends(selected, symptom) == selected \o <<symptom>>

\* SymptomSelect.toggle
toggleSymptomOf(selected, symptom) ==
    IF includes(selected, symptom) THEN without(selected, symptom)
    ELSE selected \o <<symptom>>

\* variant of ConditionSelect.toggle: "None" is not filtered out when
\* another condition is toggled
toggleConditionOf_keepsNone(selected, condition) ==
    IF condition = "None"
    THEN IF includes(selected, "None") THEN <<>> ELSE <<"None">>
    ELSE IF includes(selected, condition) THEN without(selected, condition)
         ELSE selected \o <<condition>>

\* ConditionSelect.toggle
toggleConditionOf(selected, condition) ==
    IF condition = "None"
    THEN IF includes(selected, "None") THEN <<>> ELSE <<"None">>
    ELSE LET withoutNone == without(selected, "None")
         IN  IF includes(withoutNone, condition) THEN without(withoutNone, condition)
             ELSE withoutNone \o <<condition>>

\* variant of acceptsFile: any selected file passes
acceptsFile_any(selected) == selected # UNDEFINED

\* FileUpload.handleChange: the test that lets a selection through
acceptsFile(selected) == selected # UNDEFINED /\ selected.type \in ACCEPTED_TYPES

\* useUserStore.addMedicalFile
addMedicalFile(st, f) ==
    [st EXCEPT !.medicalHistory =
        @ \o << [id |-> Len(@) + 1, fileName |-> f.fileName] >>]

mounted == shows("panel", route, authLoading)

toggleSymptom(symptom) ==
    /\ editing
    /\ symptoms' = toggleSymptomOf(symptoms, symptom)
    /\ last' = Step("edit", "")
    /\ UNCHANGED <<variant, conditions, bp, heartRate, temperature, file, loading, error,
                   store, route, mountId, tasks, counters, remoteVars, chatVars>>

toggleCondition(condition) ==
    /\ editing
    /\ conditions' = toggleConditionOf(conditions, condition)
    /\ last' = Step("edit", "")
    /\ UNCHANGED <<variant, symptoms, bp, heartRate, temperature, file, loading, error,
                   store, route, mountId, tasks, counters, remoteVars, chatVars>>

setBp(v) ==
    /\ editing
    /\ bp' = v
    /\ last' = Step("edit", "")
    /\ UNCHANGED <<variant, symptoms, conditions, heartRate, temperature, file, loading,
                   error, store, route, mountId, tasks, counters, remoteVars, chatVars>>

setHeartRate(v) ==
    /\ editing
    /\ heartRate' = v
    /\ last' = Step("edit", "")
    /\ UNCHANGED <<variant, symptoms, conditions, bp, temperature, file, loading,
                   error, store, route, mountId, tasks, counters, remoteVars, chatVars>>

setTemperature(v) ==
    /\ editing
    /\ temperature' = v
    /\ last' = Step("edit", "")
    /\ UNCHANGED <<variant, symptoms, conditions, bp, heartRate, file, loading,
                   error, store, route, mountId, tasks, counters, remoteVars, chatVars>>

handleChange(selected) ==
    /\ editing
    /\ IF acceptsFile(selected)
       THEN /\ Len(store.medicalHistory) < MaxFiles
            /\ file' = selected
            /\ store' = addMedicalFile(store, [fileName |-> selected.name])
            /\ error' = ""
            /\ last' = [Step("handleChange", "accepted") EXCEPT !.arg = selected]
       ELSE /\ error' = MSG_FILE
            /\ file' = NULL
            /\ store' = store
            /\ last' = [Step("handleChange", "rejected") EXCEPT !.arg = selected]
    /\ UNCHANGED <<variant, symptoms, conditions, bp, heartRate, temperature, loading,
                   route, mountId, tasks, counters, remoteVars, chatVars>>

----------------------------------------------------------------------------
(* Triage.handleSubmit, up to its first await *)

\* the pending invocation: the values its closure captured, the fetch calls it
\* made, and (wrote) what it has persisted so far
newTask(p) ==
    [ form |-> mountId, pc |-> "fetch", uid |-> store.uid, params |-> p,
      reqs |-> analyzePatient(p), data |-> NULL, wrote |-> {} ]

handleSubmit ==
    LET msg == validate(symptoms, file, vitalsComplete)
        p == submitParams
    IN  IF msg # ""
        THEN /\ error' = msg
             /\ UNCHANGED sessionVars
             /\ last' = Step("handleSubmit", "blocked")
             /\ UNCHANGED <<variant, symptoms, conditions, bp, heartRate, temperature, file,
                            loading, nEdits, store, route, mountId, tasks, counters, remoteVars, chatVars>>
        ELSE /\ nAccepted < MaxSubmits
             /\ Len(tasks) < MaxTasks
             /\ loading' = TRUE
             /\ error' = ""
             /\ tasks' = Append(tasks, newTask(p))
             /\ nRequests' = nRequests + Len(analyzePatient(p))
             /\ nAccepted' = nAccepted + 1
             /\ last' = Step("handleSubmit", "accepted")
             /\ UNCHANGED sessionVars
             /\ UNCHANGED <<variant, symptoms, conditions, bp, heartRate, temperature, file,
                            nEdits, store, route, mountId, remoteVars, chatVars>>

\* onClick of the Submit button: fires only while the button is enabled
ClickSubmit ==
    /\ mounted
    /\ ~disabled(loading, vitalsComplete)
    /\ handleSubmit

\* handleSubmit called although the button is disabled for missing vitals
DirectSubmit ==
    /\ mounted
    /\ ~vitalsComplete
    /\ handleSubmit

----------------------------------------------------------------------------
(* Triage.handleSubmit, the continuations after each await *)

removeAt(seq, i) == SubSeq(seq, 1, i - 1) \o SubSeq(seq, i + 1, Len(seq))

\* a state setter of a Triage instance acts only while that instance is mounted
owns(t) == t.form = mountId /\ mounted

\* a history document that leaves the chosen conditions out
historyEntry_withoutConditions(t, ts) ==
    [ timestamp |-> ts,
      symptoms |-> t.params.symptoms,
      conditions |-> <<>>,
      risk_level |-> t.data.final_recommendation.risk_level,
      department |-> t.data.final_recommendation.department,
      fileName |-> IF t.params.file # NULL THEN t.params.file.name ELSE "null" ]

\* the history document written by addDoc
historyEntry(t, ts) ==
    [ timestamp |-> ts,
      symptoms |-> t.params.symptoms,
      conditions |-> t.params.conditions,
      risk_level |-> t.data.final_recommendation.risk_level,
      department |-> t.data.final_recommendation.department,
      fileName |-> IF t.params.file # NULL THEN t.params.file.name ELSE "null" ]

\* catch (err) { setError(...) } finally { setLoading(false) }
catchFinally(t, err, step) ==
    /\ error' = IF owns(t) THEN catchMessage(err) ELSE error
    /\ loading' = IF owns(t) THEN FALSE ELSE loading
    /\ UNCHANGED <<variant, symptoms, conditions, bp, heartRate, temperature, file,
                   nEdits, store, route, mountId, counters, sessionVars, chatVars>>
    /\ last' = [step EXCEPT !.out = "throw", !.msg = err.message, !.wrote = t.wrote]

\* setTriageResult(data); router.push("/result"); finally setLoading(false).
\* Leaving /triage unmounts the form: its state is discarded.
storeAndNavigate(t, data, step) ==
    /\ store' = setTriageResult(store, data)
    /\ commit(store.uid, "/result", authLoading)
    /\ UNCHANGED <<variant, counters, nEdits, authVars, nNavs, saves>>
    /\ last' = [step EXCEPT !.out = "navigate", !.data = data,
                            !.wrote = t.wrote \cup {"triageResult"}]

\* the handler suspends at its next await
awaitNext(data, step) ==
    /\ UNCHANGED <<variant, formVars, nEdits, route, mountId, counters, sessionVars, chatVars>>
    /\ last' = [step EXCEPT !.out = "await", !.data = data]

\* await analyzePatient(...) settles
FetchSettle(i, res) ==
    /\ i \in 1..Len(tasks)
    /\ tasks[i].pc = "fetch"
    /\ LET t == tasks[i]
           s == analyzePatientSettle(res)
           step == [Step("fetchSettle", "") EXCEPT !.arg = res]
       IN  IF s.throws
           THEN /\ tasks' = removeAt(tasks, i)
                /\ UNCHANGED remoteVars
                /\ catchFinally(t, s, step)
           ELSE IF persists(variant, t.uid)
                THEN /\ tasks' = [tasks EXCEPT ![i].pc = "addDoc", ![i].data = s.value]
                     /\ UNCHANGED <<store, remoteVars>>
                     /\ awaitNext(s.value, step)
                ELSE /\ tasks' = removeAt(tasks, i)
                     /\ UNCHANGED remoteVars
                     /\ storeAndNavigate(t, s.value, step)

\* setDoc(ref, fields, { merge: true }): the document exists afterwards and
\* holds the given fields over the ones it had
merge(d, fields) ==
    [ f \in DOMAIN d |->
        IF f = "exists" THEN TRUE
        ELSE IF f \in DOMAIN fields THEN fields[f] ELSE d[f] ]

\* increment(n) applied to a stored field
increment(v, n) == IF v.t = "num" THEN num(v.n + n) ELSE num(n)

firestoreError == [throws |-> TRUE, isError |-> TRUE, message |-> MSG_FIRESTORE, value |-> NULL]

\* addDoc writes a document under a fresh id, where a write to the id of the
\* newest document would replace it
addDoc_overwritesNewest(col, entry) ==
    IF col = <<>> THEN <<entry>> ELSE [col EXCEPT ![Len(col)] = entry]

\* addDoc(collection, entry): a new document; the others stay as they are
addDoc(col, entry) == Append(col, entry)

\* await addDoc(collection(db, "users", uid, "history"), ...) settles
AddDocSettle(i, ok) ==
    /\ i \in 1..Len(tasks)
    /\ tasks[i].pc = "addDoc"
    /\ LET t == tasks[i]
           step == Step("addDocSettle", "")
       IN  IF ok
           THEN /\ history' = [history EXCEPT ![t.uid] =
                                  addDoc(@, historyEntry(t, Len(@) + 1))]
                /\ tasks' = [tasks EXCEPT ![i].pc = "setDoc",
                                          ![i].wrote = @ \cup {"history"}]
                /\ UNCHANGED <<store, profile>>
                /\ awaitNext(t.data, step)
           ELSE /\ tasks' = removeAt(tasks, i)
                /\ UNCHANGED remoteVars
                /\ catchFinally(t, firestoreError, step)

\* await setDoc(doc(db, "users", uid), {...}, { merge: true }) settles
SetDocSettle(i, ok) ==
    /\ i \in 1..Len(tasks)
    /\ tasks[i].pc = "setDoc"
    /\ LET t == tasks[i]
           step == Step("setDocSettle", "")
       IN  IF ok
           THEN /\ profile' = [profile EXCEPT ![t.uid] =
                                  merge(@, [sessionCount |-> increment(@.sessionCount, 1),
                                            lastRiskLevel |->
                                              str(t.data.final_recommendation.risk_level)])]
                /\ UNCHANGED history
                /\ tasks' = removeAt(tasks, i)
                /\ storeAndNavigate([t EXCEPT !.wrote = @ \cup {"profile"}], t.data, step)
           ELSE /\ tasks' = removeAt(tasks, i)
                /\ UNCHANGED remoteVars
                /\ catchFinally(t, firestoreError, step)

\* ResultPage: "Go back to triage" mounts a fresh Triage
GoBackToTriage ==
    /\ ~authLoading
    /\ route = "/result"
    /\ commit(store.uid, "/triage", authLoading)
    /\ last' = Step("goBack", "")
    /\ UNCHANGED <<variant, nEdits, store, tasks, counters, remoteVars, authVars,
                   nNavs, saves>>

----------------------------------------------------------------------------
(* client/components/result/VitalViz.tsx: AuthProvider *)

\* the provider tells the observer of its user: an invocation of the
\* callback is queued (first: the one made when the observer subscribes)
notify(q, u, first) == Append(q, [user |-> u, pc |-> "start", first |-> first])

\* variant of restoreProfile: age and gender are restored only when both are set
restoreProfile_requiresBoth(st, userDoc) ==
    IF userDoc # NULL /\ userDoc.exists
    THEN LET s1 == IF truthy(userDoc.age) /\ truthy(userDoc.gender)
                   THEN setDemographics(st, [age |-> coalesce(userDoc.age, ""),
                                             gender |-> coalesce(userDoc.gender, "")])
                   ELSE st
         IN  IF userDoc.sessionCount.t = "num"
             THEN setSessionCount(s1, userDoc.sessionCount.n) ELSE s1
    ELSE st

\* if (userDoc?.exists()) { ... }: what the callback restores from the
\* document it read (NULL: no document was read)
restoreProfile(st, userDoc) ==
    IF userDoc # NULL /\ userDoc.exists
    THEN LET s1 == IF truthy(userDoc.age) \/ truthy(userDoc.gender)
                   THEN setDemographics(st, [age |-> coalesce(userDoc.age, ""),
                                             gender |-> coalesce(userDoc.gender, "")])
                   ELSE st
         IN  IF userDoc.sessionCount.t = "num"
             THEN setSessionCount(s1, userDoc.sessionCount.n) ELSE s1
    ELSE st

\* variant of loadingWhile: setLoading(false) runs before the restore
loadingWhile_early(ld, awaiting) == FALSE

\* AuthProvider's loading after a step of the callback: setLoading(false) is
\* the callback's last statement
loadingWhile(ld, awaiting) == IF awaiting THEN ld ELSE FALSE

\* the callback invocation the observer runs next: the oldest queued one
nextCallback(i) ==
    /\ i \in 1..Len(authTasks)
    /\ authTasks[i].pc = "start"
    /\ \A j \in 1..(i - 1) : authTasks[j].pc # "start"

appIdle == UNCHANGED <<variant, nEdits, tasks, counters, nNavs, saves>>

\* the callback up to its first await (signed in) or to its end (signed out)
AuthCallback(i) ==
    /\ nextCallback(i)
    /\ LET u == authTasks[i].user
       IN  IF u # ""
           THEN /\ store' = setUser(store, providerUser(u))
                /\ authTasks' = [authTasks EXCEPT ![i].pc = "getDoc"]
                /\ authLoading' = loadingWhile(authLoading, TRUE)
                /\ commit(u, route, authLoading')
                /\ last' = [Step("authCallback", "await") EXCEPT !.arg = u]
           ELSE /\ store' = clearUser(store)
                /\ authTasks' = removeAt(authTasks, i)
                /\ authLoading' = loadingWhile(authLoading, FALSE)
                /\ commit("", route, authLoading')
                /\ last' = [Step("authCallback", "done") EXCEPT !.arg = u, !.data = store]
    /\ appIdle
    /\ UNCHANGED <<currentUser, logouts, signIns, nAuthEvents, remoteVars>>

\* the callback from the restore to its end
finishCallback(i, userDoc, step) ==
    /\ store' = restoreProfile(store, userDoc)
    /\ authTasks' = removeAt(authTasks, i)
    /\ authLoading' = loadingWhile(authLoading, FALSE)
    /\ commit(store'.uid, route, authLoading')
    /\ last' = [step EXCEPT !.out = "done", !.data = userDoc]

\* await getDoc(ref) settles: with the document on the server, or it throws
GetDocSettle(i, ok) ==
    /\ i \in 1..Len(authTasks)
    /\ authTasks[i].pc = "getDoc"
    /\ LET step == [Step("getDocSettle", "") EXCEPT !.arg = authTasks[i].user]
       IN  IF ok
           THEN finishCallback(i, profile[authTasks[i].user], step)
           ELSE /\ authTasks' = [authTasks EXCEPT ![i].pc = "getDocFromCache"]
                /\ last' = [step EXCEPT !.out = "await"]
                /\ UNCHANGED <<store, authLoading, viewVars, formVars, mountId, chatVars>>
    /\ appIdle
    /\ UNCHANGED <<currentUser, logouts, signIns, nAuthEvents, remoteVars>>

\* await getDocFromCache(ref).catch(() => null) settles
GetDocFromCacheSettle(i, c) ==
    /\ i \in 1..Len(authTasks)
    /\ authTasks[i].pc = "getDocFromCache"
    /\ finishCallback(i, IF c.rejected THEN NULL ELSE c.doc,
                      [Step("getDocFromCacheSettle", "") EXCEPT !.arg = authTasks[i].user])
    /\ appIdle
    /\ UNCHANGED <<currentUser, logouts, signIns, nAuthEvents, remoteVars>>

\* the provider's user changes without this page asking (another tab signs
\* in or out, the session is revoked): the observer is told
AuthStateChanged(u) ==
    /\ nAuthEvents + logouts + signIns < MaxAuthEvents
    /\ u # currentUser
    /\ currentUser' = u
    /\ nAuthEvents' = nAuthEvents + 1
    /\ authTasks' = notify(authTasks, u, FALSE)
    /\ last' = [Step("authStateChanged", "") EXCEPT !.arg = u]
    /\ appIdle
    /\ UNCHANGED <<store, authLoading, logouts, signIns, viewVars, formVars, mountId,
                   remoteVars, chatVars>>

----------------------------------------------------------------------------
(* client/app/page.tsx: Home; client/app/onboarding/page.tsx: Onboarding *)

\* Home.handleGoogleSignIn up to await signInWithGoogle()
handleGoogleSignIn ==
    /\ ~authLoading
    /\ route = "/"
    /\ signIns = 0
    /\ nAuthEvents + logouts + signIns < MaxAuthEvents
    /\ signIns' = signIns + 1
    /\ last' = Step("handleGoogleSignIn", "await")
    /\ appIdle
    /\ UNCHANGED <<store, authLoading, currentUser, authTasks, logouts, nAuthEvents,
                   viewVars, formVars, mountId, remoteVars, chatVars>>

\* signInWithGoogle() settles: the provider's user is u and the handler goes
\* on to setUser and /onboarding, or the popup failed and it is logged
SignInSettle(u, ok) ==
    /\ signIns > 0
    /\ signIns' = signIns - 1
    /\ IF ok
       THEN /\ currentUser' = u
            /\ nAuthEvents' = IF u # currentUser THEN nAuthEvents + 1 ELSE nAuthEvents
            /\ authTasks' = IF u # currentUser THEN notify(authTasks, u, FALSE) ELSE authTasks
            /\ store' = setUser(store, providerUser(u))
            /\ commit(u, "/onboarding", authLoading)
            /\ last' = [Step("signInSettle", "navigate") EXCEPT !.arg = u]
       ELSE /\ last' = Step("signInSettle", "logged")
            /\ UNCHANGED <<currentUser, nAuthEvents, authTasks, store, viewVars,
                           formVars, mountId, chatVars>>
    /\ appIdle
    /\ UNCHANGED <<authLoading, logouts, remoteVars>>

\* Onboarding.handleSubmit
onboardingSubmit(inp) ==
    /\ ~authLoading
    /\ route = "/onboarding"
    /\ IF inp.age = "" \/ inp.gender = ""
       THEN /\ last' = [Step("onboardingSubmit", "blocked") EXCEPT !.arg = inp]
            /\ UNCHANGED <<store, viewVars, formVars, mountId, chatVars>>
       ELSE /\ store' = setDemographics(store, inp)
            /\ commit(store.uid, "/triage", authLoading)
            /\ last' = [Step("onboardingSubmit", "navigate") EXCEPT !.arg = inp]
    /\ appIdle
    /\ UNCHANGED <<authVars, remoteVars>>

----------------------------------------------------------------------------
(* unnamed/part_004: UserProfile *)

\* handleLogout up to await auth.signOut()
handleLogout ==
    /\ shows("panel", route, authLoading)
    /\ nAuthEvents + logouts + signIns < MaxAuthEvents
    /\ logouts' = logouts + 1
    /\ last' = Step("handleLogout", "await")
    /\ appIdle
    /\ UNCHANGED <<store, authLoading, currentUser, authTasks, signIns, nAuthEvents,
                   viewVars, formVars, mountId, remoteVars, chatVars>>

\* auth.signOut() settles: the provider has no user, the observer is told,
\* and the handler goes on to clearUser() and "/"; or it throws
SignOutSettle(ok) ==
    /\ logouts > 0
    /\ logouts' = logouts - 1
    /\ IF ok
       THEN /\ currentUser' = ""
            /\ nAuthEvents' = IF currentUser # "" THEN nAuthEvents + 1 ELSE nAuthEvents
            /\ authTasks' = IF currentUser # "" THEN notify(authTasks, "", FALSE)
                            ELSE authTasks
            /\ store' = clearUser(store)
            /\ commit("", "/", authLoading)
            /\ last' = [Step("signOutSettle", "done") EXCEPT !.data = store]
       ELSE /\ last' = Step("signOutSettle", "throw")
            /\ UNCHANGED <<currentUser, nAuthEvents, authTasks, store, viewVars,
                           formVars, mountId, chatVars>>
    /\ appIdle
    /\ UNCHANGED <<authLoading, signIns, remoteVars>>

\* handleSave: the store at once, the remote write without awaiting it
handleSave(inp) ==
    /\ shows("panel", route, authLoading)
    /\ Len(saves) < MaxSaves
    /\ store' = updateDemographics(store, inp.age, inp.gender)
    /\ saves' = IF store.uid # ""
                THEN Append(saves, [uid |-> store.uid, age |-> inp.age, gender |-> inp.gender])
                ELSE saves
    /\ last' = [Step("handleSave", "") EXCEPT !.arg = inp]
    /\ UNCHANGED <<variant, nEdits, tasks, counters, nNavs, authVars, viewVars, formVars,
                   mountId, remoteVars, chatVars>>

\* setDoc(doc(db, "users", uid), { age, gender }, { merge: true }) settles;
\* .catch((err) => console.error(...))
SaveSettle(i, ok) ==
    /\ i \in 1..Len(saves)
    /\ saves' = removeAt(saves, i)
    /\ IF ok
       THEN /\ profile' = [profile EXCEPT ![saves[i].uid] =
                              merge(@, [age |-> str(saves[i].age),
                                        gender |-> str(saves[i].gender)])]
            /\ last' = Step("saveSettle", "done")
       ELSE /\ profile' = profile
            /\ last' = [Step("saveSettle", "logged") EXCEPT
                            !.msg = "Failed to save demographics:"]
    /\ UNCHANGED <<variant, nEdits, tasks, counters, nNavs, authVars, viewVars, formVars,
                   mountId, store, history, chatVars>>

----------------------------------------------------------------------------
(* client/app/dashboard/page.tsx: DashboardPage; the listeners *)

\* a list ordered by timestamp, descending or ascending
RECURSIVE insertBy(_, _, _)
insertBy(e, sorted, desc) ==
    IF Len(sorted) = 0 THEN <<e>>
    ELSE IF (desc /\ e.timestamp >= sorted[1].timestamp)
            \/ (~desc /\ e.timestamp <= sorted[1].timestamp)
         THEN <<e>> \o sorted
         ELSE <<sorted[1]>> \o insertBy(e, Tail(sorted), desc)

RECURSIVE sortBy(_, _)
sortBy(docs, desc) ==
    IF Len(docs) = 0 THEN <<>> ELSE insertBy(docs[1], sortBy(Tail(docs), desc), desc)

\* variant of historyQuery: the query orders by timestamp ascending
historyQuery_ascending(docs) == sortBy(docs, FALSE)

\* query(collection(db, "users", uid, "history"), orderBy("timestamp", "desc"))
historyQuery(docs) == sortBy(docs, TRUE)

\* what a registration would deliver now
current(l) == IF l.kind = "history" THEN Len(history[l.uid]) ELSE profile[l.uid]

\* the profile listener's callback (dashboard 69-75)
onProfileSnapshot(st, snapshot) ==
    IF snapshot.exists /\ snapshot.sessionCount.t = "num"
    THEN setSessionCount(st, snapshot.sessionCount.n) ELSE st

\* variant of fires: a registration's callback runs after unsubscribe() too
fires_afterUnsubscribe(l) == TRUE

\* unsubscribe() (dashboard 80, 104): the callback of a registration runs
\* only until the registration is unsubscribed
fires(l) == l.active

\* a snapshot reaches registration i: its callback runs unless the
\* registration was unsubscribed; a state setter of a component that is no
\* longer mounted changes nothing
Snapshot(i) ==
    /\ i \in 1..Len(listeners)
    /\ ~listeners[i].failed
    /\ listeners[i].seen # current(listeners[i])
    /\ LET l == listeners[i]
           entries == historyQuery(history[l.uid])
           sets == fires(l) /\ shows(l.owner, route, authLoading)
       IN  /\ listeners' = [listeners EXCEPT ![i].seen = current(l)]
           /\ store' = IF fires(l) /\ l.kind = "profile"
                       THEN onProfileSnapshot(store, profile[l.uid]) ELSE store
           /\ viewHistory' = IF sets /\ l.kind = "history" /\ l.owner = "dashboard"
                             THEN entries ELSE viewHistory
           /\ panelHistory' = IF sets /\ l.kind = "history" /\ l.owner = "panel"
                              THEN entries ELSE panelHistory
           /\ last' = [Step("snapshot", IF fires(l) THEN "callback" ELSE "muted")
                          EXCEPT !.arg = i, !.data = [store |-> store,
                                                     viewHistory |-> viewHistory,
                                                     panelHistory |-> panelHistory]]
    /\ UNCHANGED <<variant, nEdits, tasks, counters, nNavs, authVars, route, formVars,
                   mountId, remoteVars, saves, chatVars>>

\* variant of onListenerError: the handler empties the list it feeds
onListenerError_clears(h) == <<>>

\* (error) => { console.warn(...) }: the history list after the handler
onListenerError(h) == h

\* the error callback of a registration that is subscribed:
\* console.warn(...), and the registration delivers nothing more
ListenerError(i) ==
    /\ i \in 1..Len(listeners)
    /\ listeners[i].active
    /\ ~listeners[i].failed
    /\ listeners' = [listeners EXCEPT ![i].failed = TRUE]
    /\ viewHistory' = IF listeners[i].owner = "dashboard" /\ listeners[i].kind = "history"
                      THEN onListenerError(viewHistory) ELSE viewHistory
    /\ panelHistory' = IF listeners[i].owner = "panel"
                       THEN onListenerError(panelHistory) ELSE panelHistory
    /\ last' = [Step("listenerError", "logged")
                   EXCEPT !.arg = i, !.msg = "listener error:"]
    /\ UNCHANGED <<variant, nEdits, tasks, counters, nNavs, authVars, route,
                   formVars, mountId, store, remoteVars, saves, chatVars>>

\* a link to another page is followed (UserHealthCard 102, AppShell 36-43,
\* assistant 115)
follow(from, to) ==
    /\ ~authLoading
    /\ route = from
    /\ nNavs < MaxNavs
    /\ nNavs' = nNavs + 1
    /\ commit(store.uid, to, authLoading)
    /\ last' = [Step("follow", "") EXCEPT !.arg = to]
    /\ UNCHANGED <<variant, nEdits, tasks, counters, authVars, store, remoteVars, saves>>

DashboardToTriage == follow("/dashboard", "/triage")
DashboardToAssistant == follow("/dashboard", "/assistant")
TriageToAssistant == follow("/triage", "/assistant")
AssistantToDashboard == follow("/assistant", "/dashboard")

\* the registrations a run can make: two for each mount of a page
MaxListeners == 2 * (MaxNavs + MaxSubmits + 1)

----------------------------------------------------------------------------
(* client/app/assistant/page.tsx: AssistantPage, and sendChatMessage *)

ChatInputs == {"", " ", "Any news?"}
Suggestions == {"Is my condition improving?"}

MSG_SORRY == "I'm sorry, I couldn't process your request. "

\* what the fetch of a chat request can settle with
ChatResponses ==
    { [kind |-> "response", ok |-> TRUE, status |-> 200, parses |-> TRUE,
       json |-> [t |-> "obj", detail |-> UNDEFINED, value |-> [reply |-> "You are doing well."]]],
      [kind |-> "response", ok |-> FALSE, status |-> 503, parses |-> TRUE,
       json |-> [t |-> "obj", detail |-> str("no capacity"), value |-> NULL]],
      [kind |-> "response", ok |-> FALSE, status |-> 500, parses |-> FALSE, json |-> NULL],
      [kind |-> "rejected", ok |-> FALSE, status |-> 0, parses |-> FALSE, json |-> NULL] }

\* the fetch calls one sendChatMessage(uid, message) makes
sendChatMessage(uid, message) ==
    << [url |-> "/api/chat", method |-> "POST",
        body |-> [uid |-> uid, message |-> message]] >>

\* how the promise of sendChatMessage settles once fetch has settled with res
sendChatMessageSettle(res) ==
    IF res.kind = "rejected"
    THEN [throws |-> TRUE, isError |-> TRUE, message |-> MSG_NETWORK, value |-> NULL]
    ELSE IF ~res.ok
    THEN [throws |-> TRUE, isError |-> TRUE, message |-> errorMessage(res), value |-> NULL]
    ELSE IF ~res.parses
    THEN [throws |-> TRUE, isError |-> TRUE, message |-> MSG_PARSE, value |-> NULL]
    ELSE [throws |-> FALSE, isError |-> FALSE, message |-> "", value |-> res.json.value]

\* nextId()
nextId(n) == "msg-" \o ToString(n + 1)

\* variant of ignored: only an empty text is ignored
ignored_whenEmpty(text, ld) == text = ""

\* if (!text || isLoading) return
ignored(text, ld) == text = "" \/ ld

\* handleSendMessage(overrideText), up to its await
handleSendMessage(overrideText) ==
    LET text == trim(coalesce(overrideText, input))
    IN  IF ignored(text, isLoading)
        THEN /\ last' = [Step("handleSendMessage", "return") EXCEPT !.arg = overrideText]
             /\ UNCHANGED chatVars
        ELSE /\ msgId + 2 <= MaxMessages
             /\ messages' = Append(messages,
                                [id |-> nextId(msgId), role |-> "user", content |-> text])
             /\ msgId' = msgId + 1
             /\ input' = ""
             /\ isLoading' = TRUE
             /\ chatTasks' = Append(chatTasks,
                                 [ live |-> TRUE, uid |-> store.uid, text |-> text,
                                   reqs |-> sendChatMessage(store.uid, text) ])
             /\ last' = [Step("handleSendMessage", "sent") EXCEPT !.arg = overrideText]

chatIdle ==
    UNCHANGED <<variant, formVars, nEdits, store, mountId, tasks, counters, remoteVars,
                authVars, nNavs, viewVars, saves>>

\* onChange of the text input, which is disabled while a reply is awaited
setInput(v) ==
    /\ shows("assistant", route, authLoading)
    /\ ~isLoading
    /\ v # input
    /\ input' = v
    /\ last' = [Step("setInput", "") EXCEPT !.arg = str(v)]
    /\ UNCHANGED <<messages, isLoading, chatTasks, msgId>>
    /\ chatIdle

\* onSubmit of the form: the Send button is enabled
SubmitChat ==
    /\ shows("assistant", route, authLoading)
    /\ ~(isLoading \/ trim(input) = "")
    /\ handleSendMessage(UNDEFINED)
    /\ chatIdle

\* onClick of a suggestion, which the empty state offers
ClickSuggestion(s) ==
    /\ shows("assistant", route, authLoading)
    /\ Len(messages) = 0 /\ ~isLoading
    /\ handleSendMessage(str(s))
    /\ chatIdle

\* handleSendMessage called although the Send button is disabled and no
\* suggestion is on offer
DirectSend(overrideText) ==
    /\ shows("assistant", route, authLoading)
    /\ isLoading \/ trim(coalesce(overrideText, input)) = ""
    /\ handleSendMessage(overrideText)
    /\ chatIdle

\* setIsLoading(false) at the end of the try block, where a throw skips it
settled_trySucceeded(ld, throws) == IF throws THEN ld ELSE FALSE

\* finally { setIsLoading(false) }
settled(ld, throws) == FALSE

\* await sendChatMessage(uid, text) settles: the reply, or the apology that
\* carries the error's message, is appended and the input is enabled again
ChatSettle(i, res) ==
    /\ i \in 1..Len(chatTasks)
    /\ LET t == chatTasks[i]
           s == sendChatMessageSettle(res)
           content == IF s.throws THEN MSG_SORRY \o catchMessage(s) ELSE s.value.reply
           step == [Step("chatSettle", IF s.throws THEN "throw" ELSE "reply")
                       EXCEPT !.arg = res, !.msg = s.message]
       IN  /\ chatTasks' = removeAt(chatTasks, i)
           /\ UNCHANGED input
           /\ chatIdle
           /\ IF t.live
              THEN /\ messages' = Append(messages,
                                     [id |-> nextId(msgId), role |-> "assistant",
                                      content |-> content])
                   /\ msgId' = msgId + 1
                   /\ isLoading' = settled(isLoading, s.throws)
                   /\ last' = [step EXCEPT !.data = [messages |-> messages]]
              ELSE /\ UNCHANGED <<messages, msgId, isLoading>>
                   /\ last' = [step EXCEPT !.out = "unmounted"]

----------------------------------------------------------------------------
(* Specifications *)

Edit ==
    \/ \E s \in SYMPTOM_OPTIONS : toggleSymptom(s)
    \/ \E c \in CONDITION_OPTIONS : toggleCondition(c)
    \/ \E v \in BpInputs : setBp(v)
    \/ \E v \in HeartRateInputs : setHeartRate(v)
    \/ \E v \in TemperatureInputs : setTemperature(v)
    \/ \E f \in FileChoices : handleChange(f)

Settle ==
    \/ \E i \in 1..MaxTasks, res \in Responses : FetchSettle(i, res)
    \/ \E i \in 1..MaxTasks, ok \in BOOLEAN : AddDocSettle(i, ok)
    \/ \E i \in 1..MaxTasks, ok \in BOOLEAN : SetDocSettle(i, ok)

Next ==
    \/ Edit
    \/ ClickSubmit
    \/ Settle
    \/ GoBackToTriage

Spec == Init /\ [][Next]_vars

\* the same program with handleSubmit also called while the button is disabled
NextDirect ==
    \/ Next
    \/ DirectSubmit

SpecDirect == Init /\ [][NextDirect]_vars

\* the application from the moment the page is loaded: AuthProvider has
\* subscribed its observer, which is told of the user the provider kept
\* from the last visit, and shows the spinner instead of the page
InitAuth ==
    /\ variant = 3
    /\ symptoms = <<>>
    /\ conditions = <<>>
    /\ bp = ""
    /\ heartRate = ""
    /\ temperature = ""
    /\ file = NULL
    /\ loading = FALSE
    /\ error = ""
    /\ store = defaultStore
    /\ route \in {"/", "/triage"}
    /\ mountId = 1
    /\ tasks = <<>>
    /\ nRequests = 0
    /\ nAccepted = 0
    /\ history = [u \in Users |-> <<>>]
    /\ profile \in [Users -> UserDocs]
    /\ nEdits = 0
    /\ last = Step("load", "")
    /\ authLoading = TRUE
    /\ currentUser \in Users \cup {""}
    /\ authTasks = notify(<<>>, currentUser, TRUE)
    /\ logouts = 0
    /\ signIns = 0
    /\ nAuthEvents = 0
    /\ nNavs = 0
    /\ listeners = <<>>
    /\ viewHistory = <<>>
    /\ panelHistory = <<>>
    /\ saves = <<>>
    /\ messages = <<>>
    /\ input = ""
    /\ isLoading = FALSE
    /\ chatTasks = <<>>
    /\ msgId = 0

NextAuth ==
    \/ \E i \in 1..(MaxAuthEvents + 1) : AuthCallback(i)
    \/ \E i \in 1..(MaxAuthEvents + 1), ok \in BOOLEAN : GetDocSettle(i, ok)
    \/ \E i \in 1..(MaxAuthEvents + 1), c \in CacheReads : GetDocFromCacheSettle(i, c)
    \/ \E u \in Users \cup {""} : AuthStateChanged(u)
    \/ handleGoogleSignIn
    \/ \E u \in Users, ok \in BOOLEAN : SignInSettle(u, ok)
    \/ \E inp \in OnboardingInputs : onboardingSubmit(inp)
    \/ handleLogout
    \/ SignOutSettle(TRUE)
    \/ SignOutSettle(FALSE)

SpecAuth == InitAuth /\ [][NextAuth]_vars

\* the loaded application on /triage with a signed-in user, in the revision
\* that persists from the client; the edits fill each empty field once
InitSession == Init /\ variant = 3 /\ store.uid # ""

EditSession ==
    \/ symptoms = <<>> /\ toggleSymptom("Fever")
    \/ bp = "" /\ setBp("120/80")
    \/ heartRate = "" /\ setHeartRate("72")
    \/ temperature = "" /\ setTemperature("37.0")

NextSession ==
    \/ EditSession
    \/ ClickSubmit
    \/ Settle
    \/ GoBackToTriage
    \/ \E i \in 1..MaxListeners : Snapshot(i)
    \/ \E inp \in SaveInputs : handleSave(inp)
    \/ \E i \in 1..MaxSaves, ok \in BOOLEAN : SaveSettle(i, ok)
    \/ handleLogout
    \/ SignOutSettle(TRUE)
    \/ SignOutSettle(FALSE)
    \/ AuthStateChanged("")
    \/ \E i \in 1..(MaxAuthEvents + 1) : AuthCallback(i)

SpecSession == InitSession /\ [][NextSession]_vars

\* the two selection widgets of a mounted form, toggled in any order: three
\* of the symptoms and, besides "None", two of the conditions on offer
SymptomChoices == SYMPTOM_OPTIONS \cup {"Nausea"}
ConditionChoices == CONDITION_OPTIONS \cup {"Asthma"}

NextWidgets ==
    \/ \E sy \in SymptomChoices : toggleSymptom(sy)
    \/ \E c \in ConditionChoices : toggleCondition(c)

SpecWidgets == InitSession /\ [][NextWidgets]_vars

(***************************************************************************)
(* The views of a triage result: what is on the page is a sequence of      *)
(* sections, each with the texts it shows, in document order.  `c && (x)`  *)
(* in JSX renders x when c is truthy and nothing otherwise.                *)
(***************************************************************************)
section(name, items) == [section |-> name, items |-> items]
when(c, secs) == IF c THEN secs ELSE <<>>

\* the results a response can carry under the newer TriageResult type: with
\* and without a model prediction, summary, and each of the lists
Lists(x) == { <<>>, <<x>> }
MlPrediction ==
    [ risk_level |-> "Medium", risk_confidence |-> 71,
      department |-> "Neurology", department_confidence |-> 64 ]
RenderResults ==
    { [ ml_prediction |-> ml,
        ai_explanation |-> [summary |-> "Likely viral.", key_findings |-> kf],
        final_recommendation |->
            [ risk_level |-> "High", department |-> "Cardiology",
              summary |-> sm, recommended_action |-> "See a doctor today." ],
        risk_factors |-> rf,
        care_plan |-> [ care_instructions |-> ci,
                        dietary_recommendations |-> dr,
                        dietary_restrictions |-> ds ],
        confidence_score |-> 80 ] :
        ml \in {NULL, MlPrediction},
        sm \in {"", "Seek urgent cardiac review."},
        kf \in Lists("Fever above 39"),
        rf \in Lists("Hypertension"),
        ci \in Lists("Rest for two days"),
        dr \in Lists("Drink more water"),
        ds \in Lists("Avoid salt") }

\* Triage (revision with inline results) 369-389: {ml && (...)}
mlCard_never(ml) == <<>>
mlCard(ml) ==
    when(ml # NULL,
         << section("ml_prediction", <<ml.risk_level, ml.department>>) >>)

\* Triage (revision with inline results) 201-204, 319-448: the results block
\* under the form, {triageResult && rec && riskStyle && (...)}
inlineResults(tr) ==
    IF tr = NULL THEN <<>>
    ELSE LET rec == tr.final_recommendation
             ml == tr.ml_prediction
             ai == tr.ai_explanation
         IN  << section("risk_level", <<rec.risk_level \o " Risk">>),
                section("department", <<rec.department>>) >>
             \o when(truthyStr(rec.summary), << section("summary", <<rec.summary>>) >>)
             \o mlCard(ml)
             \o when(ai # NULL,
                     << section("ai_explanation", <<>>) >>
                     \o when(Len(ai.key_findings) > 0,
                             << section("key_findings", ai.key_findings) >>)
                     \o when(truthyStr(rec.recommended_action),
                             << section("recommended_action",
                                        <<rec.recommended_action>>) >>))

\* RiskFactors 9-10: if (!factors || factors.length === 0) return null
RiskFactors_emptyCard(factors) == << section("risk_factors", factors) >>
RiskFactors(factors) ==
    IF Len(factors) = 0 THEN <<>>
    ELSE << section("risk_factors", factors) >>

\* CarePlanCard 10-15 and the three lists under it
CarePlanCard(plan) ==
    LET hasInstructions == Len(plan.care_instructions) > 0
        hasRecommendations == Len(plan.dietary_recommendations) > 0
        hasRestrictions == Len(plan.dietary_restrictions) > 0
    IN  IF ~hasInstructions /\ ~hasRecommendations /\ ~hasRestrictions THEN <<>>
        ELSE << section("care_plan", <<>>) >>
             \o when(hasInstructions,
                     << section("care_instructions", plan.care_instructions) >>)
             \o when(hasRecommendations \/ hasRestrictions,
                     when(hasRecommendations,
                          << section("dietary_recommendations",
                                     plan.dietary_recommendations) >>)
                     \o when(hasRestrictions,
                             << section("dietary_restrictions",
                                        plan.dietary_restrictions) >>))

\* ResultPage (second revision) 214-318; the department and vitals cards are
\* other components and add no section of the lists above
ResultPage(tr) ==
    IF tr = NULL THEN << section("empty", <<"No triage result available.">>) >>
    ELSE LET rec == tr.final_recommendation
         IN  << section("risk_level", <<rec.risk_level>>),
                section("department", <<rec.department>>),
                section("summary", <<rec.summary>>) >>
             \o when(truthyStr(rec.recommended_action),
                     << section("recommended_action", <<rec.recommended_action>>) >>)
             \o RiskFactors(tr.risk_factors)
             \o CarePlanCard(tr.care_plan)
             \o when(Len(tr.ai_explanation.key_findings) > 0,
                     << section("key_findings", tr.ai_explanation.key_findings) >>)

\* a signed-in user looking at a result the store holds, and the pages they
\* can go to from there
InitRender ==
    /\ variant = 3
    /\ symptoms = <<>>
    /\ conditions = <<>>
    /\ bp = ""
    /\ heartRate = ""
    /\ temperature = ""
    /\ file = NULL
    /\ loading = FALSE
    /\ error = ""
    /\ \E d \in Sessions, r \in RenderResults :
          /\ d.uid # ""
          /\ store = setTriageResult(sessionStore(d), r)
    /\ route = "/result"
    /\ mountId = 1
    /\ tasks = <<>>
    /\ nRequests = 0
    /\ nAccepted = 0
    /\ history = [u \in Users |-> <<>>]
    /\ profile = [u \in Users |-> NoDoc]
    /\ nEdits = 0
    /\ last = Step("init", "")
    /\ authLoading = FALSE
    /\ currentUser = store.uid
    /\ authTasks = <<>>
    /\ logouts = 0
    /\ signIns = 0
    /\ nAuthEvents = 0
    /\ nNavs = 0
    /\ listeners = <<>>
    /\ viewHistory = <<>>
    /\ panelHistory = <<>>
    /\ saves = <<>>
    /\ messages = <<>>
    /\ input = ""
    /\ isLoading = FALSE
    /\ chatTasks = <<>>
    /\ msgId = 0

NextRender ==
    \/ GoBackToTriage
    \/ TriageToAssistant
    \/ AssistantToDashboard

SpecRender == InitRender /\ [][NextRender]_vars

\* a signed-in user with a restored profile and a result in the store, on
\* the result page or back on the form, when the provider's user becomes
\* another account (a sign-in as that account in another tab)
InitSwitch ==
    /\ variant = 3
    /\ symptoms = <<>>
    /\ conditions = <<>>
    /\ bp = ""
    /\ heartRate = ""
    /\ temperature = ""
    /\ file = NULL
    /\ loading = FALSE
    /\ error = ""
    /\ history = [u \in AllUsers |-> <<>>]
    /\ \E a \in UserDocs, b \in UserDocs :
          profile = [u \in AllUsers |-> IF u \in Users THEN a ELSE b]
    /\ \E d \in Sessions, r \in Results :
          /\ d.uid # ""
          /\ store = setTriageResult(restoreProfile(sessionStore(d), profile[d.uid]), r)
    /\ route = "/result"
    /\ mountId = 1
    /\ tasks = <<>>
    /\ nRequests = 0
    /\ nAccepted = 0
    /\ nEdits = 0
    /\ last = Step("init", "")
    /\ authLoading = FALSE
    /\ currentUser = store.uid
    /\ authTasks = <<>>
    /\ logouts = 0
    /\ signIns = 0
    /\ nAuthEvents = 0
    /\ nNavs = 0
    /\ listeners = <<>>
    /\ viewHistory = <<>>
    /\ panelHistory = <<>>
    /\ saves = <<>>
    /\ messages = <<>>
    /\ input = ""
    /\ isLoading = FALSE
    /\ chatTasks = <<>>
    /\ msgId = 0

NextSwitch ==
    \/ \E u \in OtherUsers : AuthStateChanged(u)
    \/ \E i \in 1..(MaxAuthEvents + 1) : AuthCallback(i)
    \/ \E i \in 1..(MaxAuthEvents + 1), ok \in BOOLEAN : GetDocSettle(i, ok)
    \/ \E i \in 1..(MaxAuthEvents + 1), c \in CacheReads : GetDocFromCacheSettle(i, c)
    \/ GoBackToTriage

SpecSwitch == InitSwitch /\ [][NextSwitch]_vars

\* a signed-in user's requests under the assumption that every request and
\* every write settles: the triage form and the assistant's chat
InitLive == Init /\ store.uid # ""

SettleChat == \E i \in 1..MaxMessages, res \in ChatResponses : ChatSettle(i, res)

NextLive ==
    \/ EditSession
    \/ ClickSubmit
    \/ Settle
    \/ GoBackToTriage
    \/ TriageToAssistant
    \/ AssistantToDashboard
    \/ \E v \in ChatInputs : setInput(v)
    \/ SubmitChat
    \/ \E sg \in Suggestions : ClickSuggestion(sg)
    \/ SettleChat

\* a pending promise settles in the end; each settling changes the list of
\* pending invocations it belongs to
SpecLive ==
    InitLive /\ [][NextLive]_vars /\ WF_tasks(Settle) /\ WF_chatTasks(SettleChat)

\* the assistant's chat of a signed-in user, with handleSendMessage also
\* called while its controls are disabled; every request settles
NextChat ==
    \/ TriageToAssistant
    \/ AssistantToDashboard
    \/ \E v \in ChatInputs : setInput(v)
    \/ SubmitChat
    \/ \E sg \in Suggestions : ClickSuggestion(sg)
    \/ \E o \in {UNDEFINED, str(" "), str("Any news?")} : DirectSend(o)
    \/ SettleChat

SpecChat == InitLive /\ [][NextChat]_vars /\ WF_chatTasks(SettleChat)

\* an entry a returning user's history holds from an earlier visit
PastEntry ==
    [ timestamp |-> 1, symptoms |-> <<"Fatigue">>, conditions |-> <<"None">>,
      risk_level |-> "Low", department |-> "General", fileName |-> "null" ]

\* the entry a submission made in another tab adds
otherTabEntry(ts) ==
    [ timestamp |-> ts, symptoms |-> <<"Fever">>, conditions |-> <<>>,
      risk_level |-> "High", department |-> "Cardiology", fileName |-> "null" ]

\* the loaded application on /dashboard with a signed-in user: a new one, or
\* a returning one whose entry and counter the server holds
InitDash ==
    /\ variant = 3
    /\ symptoms = <<>>
    /\ conditions = <<>>
    /\ bp = ""
    /\ heartRate = ""
    /\ temperature = ""
    /\ file = NULL
    /\ loading = FALSE
    /\ error = ""
    /\ route = "/dashboard"
    /\ mountId = 1
    /\ tasks = <<>>
    /\ nRequests = 0
    /\ nAccepted = 0
    /\ \E past \in BOOLEAN :
          /\ history = [u \in Users |-> IF past THEN <<PastEntry>> ELSE <<>>]
          /\ profile = [u \in Users |->
                           IF past THEN merge(NoDoc, [sessionCount |-> num(1),
                                                    lastRiskLevel |-> str("Low")])
                           ELSE NoDoc]
    /\ \E d \in Sessions :
          /\ d.uid # ""
          /\ store = restoreProfile(sessionStore(d), profile[d.uid])
    /\ nEdits = 0
    /\ last = Step("init", "")
    /\ authLoading = FALSE
    /\ currentUser = store.uid
    /\ authTasks = <<>>
    /\ logouts = 0
    /\ signIns = 0
    /\ nAuthEvents = 0
    /\ nNavs = 0
    /\ listeners = subscribe("dashboard", store.uid)
    /\ viewHistory = <<>>
    /\ panelHistory = <<>>
    /\ saves = <<>>
    /\ messages = <<>>
    /\ input = ""
    /\ isLoading = FALSE
    /\ chatTasks = <<>>
    /\ msgId = 0

\* Triage.handleSubmit 398-420 run to its end in another tab of the same
\* user: the entry, then the counter
OtherTabAddDoc(u) ==
    /\ Len(history[u]) < MaxEntries
    /\ history' = [history EXCEPT ![u] = addDoc(@, otherTabEntry(Len(@) + 1))]
    /\ last' = [Step("otherTabAddDoc", "") EXCEPT !.arg = u]
    /\ UNCHANGED <<variant, nEdits, tasks, counters, nNavs, authVars, viewVars, formVars,
                   mountId, store, profile, saves, chatVars>>

OtherTabSetDoc(u) ==
    /\ increment(profile[u].sessionCount, 0).n < Len(history[u])
    /\ profile' = [profile EXCEPT ![u] =
                      merge(@, [sessionCount |-> increment(@.sessionCount, 1),
                                lastRiskLevel |-> str("High")])]
    /\ last' = [Step("otherTabSetDoc", "") EXCEPT !.arg = u]
    /\ UNCHANGED <<variant, nEdits, tasks, counters, nNavs, authVars, viewVars, formVars,
                   mountId, store, history, saves, chatVars>>

NextDash ==
    \/ \E u \in Users : OtherTabAddDoc(u)
    \/ \E u \in Users : OtherTabSetDoc(u)
    \/ \E i \in 1..MaxListeners : Snapshot(i)
    \/ \E i \in 1..MaxListeners : ListenerError(i)
    \/ DashboardToAssistant
    \/ AssistantToDashboard
    \/ DashboardToTriage
    \/ handleLogout
    \/ SignOutSettle(TRUE)
    \/ SignOutSettle(FALSE)
    \/ AuthStateChanged("")
    \/ \E i \in 1..(MaxAuthEvents + 1) : AuthCallback(i)

SpecDash == InitDash /\ [][NextDash]_vars

----------------------------------------------------------------------------
(* Properties of the triage form *)

formFields == <<symptoms, conditions, bp, heartRate, temperature, file>>

\* the handleSubmit invocations waiting for their analyze request
inFlight == {i \in 1..Len(tasks) : tasks[i].pc = "fetch"}

\* C1: a Submit with zero selected symptoms and no attached file is blocked:
\* the error becomes the validation message, no analyze request is issued
\* (none is counted, none is pending) and the in-flight flag was and stays false.
C1_SubmitBlockedWithoutSymptomOrFile ==
    [][ (last'.op = "handleSubmit" /\ Len(symptoms) = 0 /\ file = NULL)
        => /\ error' = "Please select at least one symptom or upload a medical report."
           /\ nRequests' = nRequests
           /\ tasks' = tasks
           /\ ~loading /\ ~loading' ]_vars

\* C1 witness: Submit was clicked on an enabled button (vitals complete) with
\* no symptom and no file, and the validation message is displayed.
C1_Witness ==
    /\ last.op = "handleSubmit" /\ last.out = "blocked"
    /\ Len(symptoms) = 0 /\ file = NULL
    /\ vitalsComplete
    /\ error = "Please select at least one symptom or upload a medical report."
    /\ nRequests = 0

\* C2: at most one analyze request is in flight per form; while one is in
\* flight the in-flight flag is true, and while the flag is true the Submit
\* control is disabled, so no interleaving of clicks and completions starts a
\* second request.
C2_AtMostOneRequestInFlight ==
    /\ Cardinality(inFlight) <= 1
    /\ Len(tasks) <= 1
    /\ (tasks # <<>> => loading)
    /\ (loading => disabled(loading, vitalsComplete))

\* C2 witness: a request is in flight on a form that would otherwise pass
\* validation, so only the in-flight flag keeps Submit from starting another.
C2_Witness ==
    /\ loading
    /\ Len(tasks) = 1 /\ tasks[1].pc = "fetch"
    /\ vitalsComplete /\ Len(symptoms) > 0
    /\ nAccepted = 1

\* C3: every accepted submit calls the API client once and that call issues
\* one POST to /api/triage/analyze; nothing is re-issued after a failure, so
\* the number of requests equals the number of accepted submits.
C3_OneRequestPerAcceptedSubmit ==
    /\ nRequests = nAccepted
    /\ \A i \in 1..Len(tasks) :
          /\ Len(tasks[i].reqs) = 1
          /\ tasks[i].reqs[1].url = "/api/triage/analyze"
          /\ tasks[i].reqs[1].method = "POST"
    /\ (last.op = "fetchSettle" /\ last.out = "throw" => inFlight = {})

\* C3 witness: two submits were accepted, the second request has just failed,
\* and two requests were issued in all.
C3_Witness ==
    /\ last.op = "fetchSettle" /\ last.out = "throw"
    /\ nAccepted = 2 /\ nRequests = 2
    /\ tasks = <<>>

\* C4: when the API client throws, the displayed error is the thrown error's
\* message, the in-flight flag is false again, the form fields keep their
\* values, the store's triageResult is unchanged and the route stays /triage.
C4_ApiErrorIsShownAndFormRestored ==
    [][ (last'.op = "fetchSettle" /\ last'.out = "throw")
        => /\ error' = last'.msg
           /\ loading /\ ~loading'
           /\ formFields' = formFields
           /\ store'.triageResult = store.triageResult
           /\ route' = route /\ route' = "/triage" ]_vars

\* C4 witness: a 503 with detail "no capacity" came back; the message is shown
\* on an editable form that still holds the entered symptoms.
C4_Witness ==
    /\ last.op = "fetchSettle" /\ last.out = "throw"
    /\ last.msg = "no capacity" /\ error = "no capacity"
    /\ ~loading /\ Len(symptoms) > 0 /\ vitalsComplete
    /\ route = "/triage" /\ store.triageResult = NULL

\* C5: a submission that ends with a user-visible error has persisted nothing:
\* no history entry, no profile update, no triageResult in the store.
C5_NoPartialStateOnError ==
    last.out = "throw" => last.wrote = {}

\* C6: a successful submit stores the result before it navigates: whenever the
\* result view is shown, triageResult is non-null, and right after the
\* navigation it is the response of that submit.
C6_ResultStoredBeforeNavigation ==
    /\ (route = "/result" => store.triageResult # NULL)
    /\ (last.out = "navigate"
          => route = "/result" /\ last.data # NULL /\ store.triageResult = last.data)

\* C6 witness: the client-persisting form got ResultB, saved the session and
\* navigated; the store holds ResultB.
C6_Witness ==
    /\ last.op = "setDocSettle" /\ last.out = "navigate"
    /\ route = "/result"
    /\ store.triageResult = ResultB

----------------------------------------------------------------------------
(* Properties of analyzePatient *)

\* the step that has just run is the settling of an analyze request with an
\* HTTP response (not a network failure)
settledWithResponse == last.op = "fetchSettle" /\ last.arg.kind = "response"

genericMessage(res) == "Request failed with status " \o ToString(res.status)

\* C7 as claimed: for a non-2xx response the thrown message is the body's
\* detail whenever the body parses with a detail field present, and the
\* generic message otherwise; a 2xx response throws nothing and returns the
\* parsed body.
C7_DetailWheneverPresent ==
    settledWithResponse =>
        LET res == last.arg
        IN  IF ~res.ok
            THEN /\ last.out = "throw"
                 /\ last.msg = IF res.parses /\ res.json.t = "obj"
                                  /\ res.json.detail # UNDEFINED
                               THEN jsString(res.json.detail)
                               ELSE genericMessage(res)
            ELSE /\ last.out # "throw"
                 /\ res.parses
                 /\ last.data = res.json.value

\* C7 amended: for a non-2xx response the thrown message is the string form of
\* the body's detail when the body parses as an object whose detail is truthy,
\* and the generic message otherwise (no parseable body, no detail, or an
\* empty or otherwise falsy detail); a 2xx response whose body parses throws
\* nothing and returns the parsed body; a 2xx response whose body does not
\* parse throws the parse error.
C7_DetailWhenTruthy ==
    settledWithResponse =>
        LET res == last.arg
        IN  IF ~res.ok
            THEN /\ last.out = "throw"
                 /\ last.msg = IF res.parses /\ res.json.t = "obj"
                                  /\ truthy(res.json.detail)
                               THEN jsString(res.json.detail)
                               ELSE genericMessage(res)
            ELSE IF res.parses
            THEN /\ last.out # "throw"
                 /\ last.data = res.json.value
            ELSE /\ last.out = "throw"
                 /\ last.msg = MSG_PARSE

\* C7 witness: a 503 whose body is {"detail": "no capacity"} was thrown as
\* "no capacity".
C7_Witness ==
    /\ settledWithResponse
    /\ last.arg.status = 503 /\ last.arg.parses /\ last.arg.json.t = "obj"
    /\ last.arg.json.detail = [t |-> "str", s |-> "no capacity"]
    /\ last.out = "throw"
    /\ last.msg = "no capacity"

\* the requests of the submits that had at least one symptom and all vitals
requestsWithSymptoms ==
    { <<tasks[i].params, tasks[i].reqs[1].body>> :
         i \in {j \in 1..Len(tasks) : Len(tasks[j].params.symptoms) > 0} }

\* C8 as claimed: the request carries the fields age, gender, symptoms and
\* conditions; symptoms is the selected symptoms joined by ", " and conditions
\* the selected conditions joined by ", ".
C8_SeparateJoinedFields ==
    \A pr \in requestsWithSymptoms :
        LET p == pr[1]
            fd == pr[2]
        IN  /\ hasField(fd, "age") /\ hasField(fd, "gender")
            /\ hasField(fd, "symptoms") /\ hasField(fd, "conditions")
            /\ getField(fd, "symptoms") = join(p.symptoms, ", ")
            /\ getField(fd, "conditions") = join(p.conditions, ", ")

\* C8 amended: the request carries the fields age, gender and symptoms and no
\* conditions field; the symptoms field is the single sentence
\* "Symptoms: <symptoms joined by ", ">. Pre-existing conditions: <conditions
\* joined by ", ">."; the vitals travel as bp, heart_rate and temperature.
C8_CombinedSymptomsField ==
    \A pr \in requestsWithSymptoms :
        LET p == pr[1]
            fd == pr[2]
        IN  /\ hasField(fd, "age") /\ hasField(fd, "gender")
            /\ hasField(fd, "symptoms") /\ ~hasField(fd, "conditions")
            /\ getField(fd, "symptoms") =
                  "Symptoms: " \o join(p.symptoms, ", ")
                  \o ". Pre-existing conditions: " \o join(p.conditions, ", ") \o "."
            /\ getField(fd, "age") = (IF p.age = "" THEN "0" ELSE p.age)
            /\ getField(fd, "gender") = (IF p.gender = "" THEN "Unknown" ELSE p.gender)
            /\ hasField(fd, "bp") /\ getField(fd, "bp") = p.bp
            /\ hasField(fd, "heart_rate") /\ getField(fd, "heart_rate") = p.heartRate
            /\ hasField(fd, "temperature") /\ getField(fd, "temperature") = p.temperature

\* C8 witness: Fever and Fatigue with Diabetes were submitted; the request's
\* symptoms field reads as below.
C8_Witness ==
    \E pr \in requestsWithSymptoms :
        /\ pr[1].symptoms = <<"Fever", "Fatigue">>
        /\ pr[1].conditions = <<"Diabetes">>
        /\ getField(pr[2], "symptoms")
              = "Symptoms: Fever, Fatigue. Pre-existing conditions: Diabetes."

----------------------------------------------------------------------------
(* Properties of the vitals gate and of the file input *)

\* every pending submit captured complete vitals when it issued its request
requestsHaveVitals ==
    \A i \in 1..Len(tasks) :
        vitalsCompleteOf(tasks[i].params.bp, tasks[i].params.heartRate,
                         tasks[i].params.temperature)

\* C9 as claimed: while a vital is empty after trimming the Submit control is
\* disabled, no request is issued, and a submit invoked anyway sets the vitals
\* message.
C9_VitalsMessageWheneverIncomplete ==
    /\ (~vitalsComplete => disabled(loading, vitalsComplete))
    /\ requestsHaveVitals
    /\ (last.op = "handleSubmit" /\ ~vitalsComplete
          => /\ last.out = "blocked"
             /\ error = "Blood Pressure, Heart Rate, and Temperature are required.")

\* C9 amended: while a vital is empty after trimming the Submit control is
\* disabled and no request is issued; a submit invoked anyway is blocked
\* without a network call and sets the vitals message when a symptom is
\* selected or a file attached, and the symptom-or-file message otherwise.
C9_BlockedWhileVitalsIncomplete ==
    /\ (~vitalsComplete => disabled(loading, vitalsComplete))
    /\ requestsHaveVitals
    /\ nRequests = nAccepted
    /\ (last.op = "handleSubmit" /\ ~vitalsComplete
          => /\ last.out = "blocked"
             /\ error = IF Len(symptoms) = 0 /\ file = NULL
                        THEN "Please select at least one symptom or upload a medical report."
                        ELSE "Blood Pressure, Heart Rate, and Temperature are required.")

\* C9 witness: handleSubmit ran with a symptom selected and blood pressure
\* holding only a space; the vitals message is shown and nothing was sent.
C9_Witness ==
    /\ last.op = "handleSubmit" /\ last.out = "blocked"
    /\ Len(symptoms) > 0
    /\ bp = " " /\ heartRate # "" /\ temperature # ""
    /\ error = "Blood Pressure, Heart Rate, and Temperature are required."
    /\ nRequests = 0 /\ tasks = <<>>

\* C10: the form's file is null or of an accepted MIME type; a selection of
\* any other type shows the inline error and leaves the file null; a file
\* selection issues no request.
C10_FileStateAccepted ==
    /\ \/ file = NULL
       \/ file.type \in {"application/pdf", "image/png", "image/jpeg",
                         "image/webp", "image/gif"}
    /\ (last.op = "handleChange"
          => IF last.arg # UNDEFINED /\ last.arg.type
                   \in {"application/pdf", "image/png", "image/jpeg",
                        "image/webp", "image/gif"}
             THEN file = last.arg /\ error = ""
             ELSE file = NULL /\ error = "Please select a valid file (PDF or image).")
    /\ (last.op = "handleChange" => nRequests = nAccepted)

\* C10 witness: a PDF was attached and then a text/plain file was selected:
\* the file state is null again and the inline error is shown.
C10_Witness ==
    /\ last.op = "handleChange" /\ last.out = "rejected"
    /\ last.arg # UNDEFINED /\ last.arg.type = "text/plain"
    /\ Len(store.medicalHistory) = 1
    /\ file = NULL
    /\ error = "Please select a valid file (PDF or image)."

----------------------------------------------------------------------------
(* Properties of the session *)

\* the step just taken processed a sign-out: the observer's callback ran for
\* a null user, or handleLogout went on after auth.signOut()
signOutProcessed ==
    \/ last.op = "authCallback" /\ last.out = "done"
    \/ last.op = "signOutSettle" /\ last.out = "done"

\* C11: once a sign-out is processed (the auth observer received a null
\* user, or Logout was pressed and auth.signOut() returned) the store holds
\* no derived state: displayName, email, photoURL, uid, age and gender are
\* empty, sessionCount is 0, triageResult is null, medicalHistory is empty.
C11_SignOutClearsStore ==
    signOutProcessed
        => /\ store.displayName = "" /\ store.email = "" /\ store.photoURL = ""
           /\ store.uid = "" /\ store.age = "" /\ store.gender = ""
           /\ store.sessionCount = 0
           /\ store.triageResult = NULL
           /\ store.medicalHistory = <<>>

\* a sign-out was processed for a user whose store held a triage result
C11_Witness ==
    /\ signOutProcessed
    /\ last.data.uid # ""
    /\ last.data.triageResult # NULL

\* the step just taken ended an invocation of the observer's callback
callbackCompleted ==
    /\ last.op \in {"authCallback", "getDocSettle", "getDocFromCacheSettle"}
    /\ last.out = "done"

\* the invocation made when the observer subscribed has not finished
initialCallbackPending == \E i \in 1..Len(authTasks) : authTasks[i].first

\* C12 as stated: AuthProvider's children are rendered (loading is false)
\* only after the first invocation of the auth-state callback, the one for
\* the initial auth state, has completed with its profile-restore attempt.
C12_LoadingEndsAfterInitialCallback ==
    ~authLoading => ~initialCallbackPending

\* C12, amended: loading starts true; it becomes false in exactly the steps
\* in which an invocation of the auth-state callback completes, after that
\* invocation's profile-restore attempt if it was for a signed-in user, and
\* never while every invocation so far is still awaiting; once false it
\* never becomes true again.
C12_LoadingEndsWhenACallbackCompletes ==
    [][ /\ (last.op = "load" => authLoading)
        /\ (authLoading /\ ~authLoading' => callbackCompleted')
        /\ (callbackCompleted' => ~authLoading')
        /\ (~authLoading => ~authLoading') ]_vars

\* the initial callback, for a signed-in user, has completed after a read
\* of the profile and ended the loading state
C12_Witness ==
    /\ last.op \in {"getDocSettle", "getDocFromCacheSettle"}
    /\ last.out = "done"
    /\ ~authLoading
    /\ nAuthEvents = 0

\* the document the callback that just completed had read (NULL: none,
\* the two reads failed) is d, and the store went from st0 to st1
restoredFrom(d, st0, st1) ==
    IF d # NULL /\ d.exists
    THEN /\ IF truthy(d.age) \/ truthy(d.gender)
            THEN /\ st1.age = (IF d.age \in {NULL, UNDEFINED} THEN "" ELSE d.age.s)
                 /\ st1.gender = (IF d.gender \in {NULL, UNDEFINED} THEN "" ELSE d.gender.s)
            ELSE st1.age = st0.age /\ st1.gender = st0.gender
         /\ IF d.sessionCount.t = "num"
            THEN st1.sessionCount = d.sessionCount.n
            ELSE st1.sessionCount = st0.sessionCount
    ELSE st1 = st0

\* C13: on sign-in the callback sets the identity fields from the provider;
\* the restore reads the server first, the local cache only after that read
\* failed, and nothing after both failed; a read that yields an existing
\* document restores age and gender if either is present and sessionCount if
\* it is a number; when both reads fail the store is left as it was (the
\* defaults on the initial load), no error is shown, and loading still ends.
C13_RestoreFallbackChain ==
    [][ /\ (last'.op = "authCallback" /\ last'.out = "await"
              => /\ store'.uid = last'.arg
                 /\ store'.displayName = "Asha Rao"
                 /\ store'.email = "asha@example.com"
                 /\ store'.photoURL = "")
        /\ (last'.op = "getDocSettle" /\ last'.out = "done"
              => last'.data = profile[last'.arg])
        /\ (last'.op = "getDocSettle" /\ last'.out = "await"
              => /\ store' = store
                 /\ authLoading' = authLoading
                 /\ \E i \in 1..Len(authTasks) :
                       /\ authTasks[i].pc = "getDoc"
                       /\ authTasks' = [authTasks EXCEPT ![i].pc = "getDocFromCache"])
        /\ (last'.op = "getDocFromCacheSettle"
              => \E i \in 1..Len(authTasks) : authTasks[i].pc = "getDocFromCache")
        /\ (last'.op \in {"getDocSettle", "getDocFromCacheSettle"} /\ last'.out = "done"
              => /\ restoredFrom(last'.data, store, store')
                 /\ ~authLoading'
                 /\ error' = error
                 /\ last'.msg = "")
        /\ (last'.op = "getDocFromCacheSettle" /\ last'.data = NULL /\ nAuthEvents = 0
              => /\ store'.age = "" /\ store'.gender = "" /\ store'.sessionCount = 0
                 /\ store'.uid = last'.arg) ]_vars

\* on the initial load of a signed-in user both reads failed and the page
\* is shown with the default demographics
C13_Witness ==
    /\ last.op = "getDocFromCacheSettle"
    /\ last.data = NULL
    /\ nAuthEvents = 0
    /\ store.uid # ""
    /\ ~authLoading

----------------------------------------------------------------------------
(* Properties of the dashboard *)

\* the dashboard's registrations, and those of a kind still subscribed
ofDashboard == {i \in 1..Len(listeners) : listeners[i].owner = "dashboard"}
subscribed(kind) == {i \in ofDashboard : listeners[i].kind = kind /\ listeners[i].active}

\* C14: while the dashboard is mounted at most one history listener and at
\* most one profile listener are subscribed, both for the store's uid; when
\* the uid is empty after a sign-out or the dashboard is not mounted, none
\* is subscribed and each registration the dashboard made has been
\* unsubscribed exactly once; no registration is ever unsubscribed twice.
C14_OneListenerPerKind ==
    /\ Cardinality(subscribed("history")) <= 1
    /\ Cardinality(subscribed("profile")) <= 1
    /\ \A i \in ofDashboard :
          /\ listeners[i].unsubs <= 1
          /\ listeners[i].active <=> listeners[i].unsubs = 0
          /\ listeners[i].active
                => shows("dashboard", route, authLoading) /\ listeners[i].uid = store.uid
    /\ (store.uid = "" \/ ~shows("dashboard", route, authLoading))
          => \A i \in ofDashboard : ~listeners[i].active /\ listeners[i].unsubs = 1
    /\ (store.uid # "" /\ shows("dashboard", route, authLoading))
          => subscribed("history") # {} /\ subscribed("profile") # {}

\* the dashboard was mounted twice and the user then signed out
C14_Witness ==
    /\ Cardinality(ofDashboard) >= 4
    /\ store.uid = ""
    /\ \A i \in ofDashboard : ~listeners[i].active /\ listeners[i].unsubs = 1

\* registration i belongs to a view that is gone: its owner is not mounted,
\* or its user is not signed in any more, or its owner has subscribed anew
late(i) ==
    \/ ~shows(listeners[i].owner, route, authLoading)
    \/ store.uid # listeners[i].uid
    \/ \E j \in (i + 1)..Len(listeners) :
          listeners[j].owner = listeners[i].owner /\ listeners[j].kind = listeners[i].kind

C16_ListenerErrorKeepsLastKnownState ==
    [][ last'.op = "listenerError"
          => /\ viewHistory' = viewHistory
             /\ panelHistory' = panelHistory
             /\ store' = store
             /\ route' = route
             /\ formVars' = formVars
             /\ error' = ""
             /\ ~loading'
             /\ last'.out = "logged" ]_vars

\* the dashboard's history listener reported an error while entries were shown
C16_Witness ==
    /\ last.op = "listenerError"
    /\ listeners[last.arg].owner = "dashboard"
    /\ listeners[last.arg].kind = "history"
    /\ shows("dashboard", route, authLoading)
    /\ Len(viewHistory) > 0

\* history.map((entry) => ...): the cards of the timeline, top to bottom
timeline(h) ==
    [ i \in 1..Len(h) |->
        [ timestamp |-> h[i].timestamp,
          riskLabel |-> h[i].risk_level,
          symptomsText |-> join(h[i].symptoms, ", "),
          department |-> h[i].department ] ]

\* C17: the dashboard's timeline shows entries of the signed-in user's
\* history newest first: of two cards the one with the later timestamp
\* comes first, whatever additions the listener has delivered.
C17_TimelineNewestFirst ==
    shows("dashboard", route, authLoading)
        => LET cards == timeline(viewHistory)
           IN  /\ \A i, j \in 1..Len(cards) :
                     i < j => cards[i].timestamp > cards[j].timestamp
               /\ \A i \in 1..Len(cards) :
                     \E k \in 1..Len(history[store.uid]) :
                        history[store.uid][k].timestamp = cards[i].timestamp

\* the listener delivered an addition and the timeline shows two entries
C17_Witness ==
    /\ shows("dashboard", route, authLoading)
    /\ last.op = "snapshot"
    /\ last.out = "callback"
    /\ Len(viewHistory) >= 2
    /\ Len(last.data.viewHistory) < Len(viewHistory)

\* h1 holds every entry of h0, unchanged and in place
grownFrom(h0, h1) ==
    /\ Len(h0) <= Len(h1)
    /\ SubSeq(h1, 1, Len(h0)) = h0

\* C18: persisted history is append-only: no step of the application
\* (submit and its writes, save demographics, logout, listener callbacks)
\* changes or removes an existing entry of any user.
C18_HistoryAppendOnly ==
    [][\A u \in Users : grownFrom(history[u], history'[u])]_vars

\* a second submission was recorded for a user who already had an entry
C18_Witness ==
    /\ last.op = "addDocSettle"
    /\ last.out = "await"
    /\ \E u \in Users : Len(history[u]) = 2

\* entry e records the submission of task t and the response data, under a
\* timestamp later than those of the entries in h
recordsSubmission(e, t, data, h) ==
    /\ e.symptoms = t.params.symptoms
    /\ e.conditions = t.params.conditions
    /\ e.risk_level = data.final_recommendation.risk_level
    /\ e.department = data.final_recommendation.department
    /\ \A k \in 1..Len(h) : h[k].timestamp < e.timestamp

submissionPending == \E i \in 1..Len(tasks) : owns(tasks[i])

\* a request of the mounted AssistantPage is still to settle
replyPending == \E i \in 1..Len(chatTasks) : chatTasks[i].live

\* C20: whenever the in-flight flag of the triage form, or the chat's
\* isLoading, is true it eventually is false again, given that the request
\* and the follow-up writes settle, whether they succeed or fail; the flag is
\* true only while something of that page is still to settle, so nothing
\* stays disabled after settlement; and a settled chat request or a failed
\* submission leaves its flag false at once.
C20_FlagsReturnToFalse ==
    /\ loading ~> ~loading
    /\ isLoading ~> ~isLoading
    /\ [](loading => submissionPending)
    /\ [](isLoading => replyPending)
    /\ [][ /\ (last'.op = "chatSettle" /\ last'.out # "unmounted") => ~isLoading'
           /\ (last'.out = "throw" /\ mounted') => ~loading' ]_vars

\* a chat request failed with the server's detail: the apology is shown below
\* the question and the input is enabled again
C20_Witness ==
    /\ last.op = "chatSettle" /\ last.out = "throw"
    /\ last.msg = "no capacity"
    /\ ~isLoading
    /\ Len(messages) = 2
    /\ messages[2].content = MSG_SORRY \o "no capacity"
    /\ chatTasks = <<>>

----------------------------------------------------------------------------
(* Properties of the selection widgets *)

asSet(arr) == { arr[i] : i \in 1..Len(arr) }
noDuplicate(arr) == Cardinality(asSet(arr)) = Len(arr)

\* C21: the selected conditions, after any toggles from the empty selection,
\* never hold "None" together with another condition and never hold a
\* duplicate; toggling "None" gives ["None"], or the empty selection if
\* "None" was selected; toggling another condition leaves a selection
\* without "None" in which that condition has changed sides and the other
\* conditions are as before.
C21_NoneIsExclusive ==
    /\ noDuplicate(conditions)
    /\ "None" \in asSet(conditions) => conditions = <<"None">>
    /\ \A c \in ConditionChoices :
          LET next == toggleConditionOf(conditions, c)
              others == asSet(conditions) \ {"None", c}
          IN  IF c = "None"
              THEN next = IF "None" \in asSet(conditions) THEN <<>> ELSE <<"None">>
              ELSE /\ "None" \notin asSet(next)
                   /\ noDuplicate(next)
                   /\ asSet(next) = IF c \in asSet(conditions) THEN others
                                    ELSE others \cup {c}

\* three condition toggles on a fresh form ended with "None" alone
C21_Witness ==
    /\ conditions = <<"None">>
    /\ symptoms = <<>>
    /\ nEdits = 3
    /\ last.op = "edit"

\* C30: the selected symptoms, after any toggles from the empty selection,
\* hold no duplicate; a toggle changes the side of the toggled symptom and of
\* no other, so a symptom is selected exactly when it was toggled an odd
\* number of times; toggling the same symptom twice gives the selection
\* there was before, as a set.
C30_SymptomsToggleAsSet ==
    /\ noDuplicate(symptoms)
    /\ \A sy \in SymptomChoices :
          LET once == toggleSymptomOf(symptoms, sy)
              twice == toggleSymptomOf(once, sy)
          IN  /\ noDuplicate(once)
              /\ asSet(once) = IF sy \in asSet(symptoms) THEN asSet(symptoms) \ {sy}
                               ELSE asSet(symptoms) \cup {sy}
              /\ asSet(twice) = asSet(symptoms)
              /\ Len(twice) = Len(symptoms)

\* five symptom toggles on a fresh form left two symptoms selected, the
\* later-listed one first
C30_Witness ==
    /\ symptoms = <<"Nausea", "Fever">>
    /\ conditions = <<>>
    /\ nEdits = 5
    /\ last.op = "edit"

(***************************************************************************)
(* Properties of the result views                                          *)
(***************************************************************************)
hasSection(view, name) == \E i \in 1..Len(view) : view[i].section = name
showsSection(view, name, items) ==
    \E i \in 1..Len(view) : view[i] = section(name, items)
notMlSection(e) == e.section # "ml_prediction"

C23_ListSectionsIffNonEmpty ==
    LET tr == store.triageResult
        view == ResultPage(tr)
        plan == tr.care_plan
        listed(name, list) ==
            /\ hasSection(view, name) <=> Len(list) > 0
            /\ Len(list) > 0 => showsSection(view, name, list)
    IN  route = "/result" /\ tr # NULL =>
          /\ listed("risk_factors", tr.risk_factors)
          /\ listed("key_findings", tr.ai_explanation.key_findings)
          /\ listed("care_instructions", plan.care_instructions)
          /\ listed("dietary_recommendations", plan.dietary_recommendations)
          /\ listed("dietary_restrictions", plan.dietary_restrictions)
          /\ hasSection(view, "care_plan")
                <=> \/ Len(plan.care_instructions) > 0
                    \/ Len(plan.dietary_recommendations) > 0
                    \/ Len(plan.dietary_restrictions) > 0

C23_Witness ==
    /\ route = "/result"
    /\ store.triageResult # NULL
    /\ store.triageResult.risk_factors = <<>>
    /\ store.triageResult.ai_explanation.key_findings = <<"Fever above 39">>
    /\ store.triageResult.care_plan.care_instructions = <<>>
    /\ store.triageResult.care_plan.dietary_recommendations = <<>>
    /\ store.triageResult.care_plan.dietary_restrictions = <<"Avoid salt">>
    /\ ~hasSection(ResultPage(store.triageResult), "risk_factors")
    /\ hasSection(ResultPage(store.triageResult), "dietary_restrictions")

(***************************************************************************)
(* Properties of the session counter and of the store across sign-out      *)
(***************************************************************************)
incrementsApplied(u) ==
    IF profile[u].sessionCount.t = "num" THEN profile[u].sessionCount.n ELSE 0
writePending(u) == \E i \in 1..Len(tasks) : tasks[i].uid = u /\ tasks[i].pc = "setDoc"

\* C24: with the form that saves sessions from the client, whenever no
\* submission of a user stands between its two writes, the profile's
\* sessionCount has been incremented as many times as the form has appended
\* history entries, also when a write failed
C24_IncrementsMatchEntries ==
    \A u \in Users : ~writePending(u) => incrementsApplied(u) = Len(history[u])

\* C25: the store holds a triage result only while it holds a signed-in
\* user; a response that arrives after sign-out does not fill it again
C25_NoResultWithoutUser == store.triageResult # NULL => store.uid # ""

\* C26: once the provider's latest word is that nobody is signed in and
\* every auth-state callback has run to its end, the store's age and gender
\* are empty and its sessionCount is 0
C26_SignedOutStoreIsEmpty ==
    currentUser = "" /\ authTasks = <<>> /\ signIns = 0 /\ logouts = 0
        => store.age = "" /\ store.gender = "" /\ store.sessionCount = 0

\* what the store holds for a user who has just signed in on a fresh page
\* and whose callback read userDoc
freshSession(u, userDoc) == restoreProfile(setUser(defaultStore, providerUser(u)), userDoc)

\* C27: when the provider's user changes from one account directly to
\* another, then once the callback for the new account has finished the store
\* is what a fresh sign-in of that account gives: no age, gender, sessionCount
\* or triageResult of the previous account is left, also when the new
\* account has no profile document
C27_NothingOfPreviousUserRemains ==
    /\ last.op \in {"getDocSettle", "getDocFromCacheSettle"}
    /\ last.out = "done"
    /\ last.arg \in OtherUsers
    /\ authTasks = <<>>
    => store = freshSession(last.arg, last.data)

(***************************************************************************)
(* Properties of the profile panel's Save                                  *)
(***************************************************************************)
\* C28: Save puts the edited age and gender into the store at once and, for
\* a signed-in user, issues the remote write without waiting for it: the
\* handler ends with the write pending and the document untouched. A write
\* that fails is logged only: the store keeps the edited values, the
\* document keeps its own, and nothing on the page changes
C28_SaveIsOptimistic ==
    [][ /\ last'.op = "handleSave"
            => /\ store' = [store EXCEPT !.age = last'.arg.age,
                                         !.gender = last'.arg.gender]
               /\ profile' = profile
               /\ saves' = IF store.uid # ""
                           THEN Append(saves, [uid |-> store.uid, age |-> last'.arg.age,
                                               gender |-> last'.arg.gender])
                           ELSE saves
               /\ error' = error /\ route' = route /\ loading' = loading
        /\ last'.op = "saveSettle" /\ last'.out = "logged"
            => /\ store' = store
               /\ profile' = profile
               /\ Len(saves') = Len(saves) - 1
               /\ error' = error /\ route' = route /\ loading' = loading
      ]_vars

\* a signed-in user's Save whose remote write failed: the store has the
\* edited values, the document does not
C28_Witness ==
    /\ last.op = "saveSettle" /\ last.out = "logged"
    /\ store.uid # ""
    /\ store.age = "35" /\ store.gender = "Female"
    /\ profile[store.uid].age # str("35")
    /\ saves = <<>>
    /\ error = ""

(***************************************************************************)
(* Properties of the assistant's chat                                      *)
(***************************************************************************)
lastIsUser == Len(messages) > 0 /\ messages[Len(messages)].role = "user"
liveRequests == {i \in 1..Len(chatTasks) : chatTasks[i].live}

\* C29: a send is ignored while a reply is awaited or when the trimmed text
\* is empty; an accepted send appends one user message with the trimmed
\* text; the settling of its request appends one assistant message, the
\* reply or the apology that ends with the error's message; so the list
\* alternates user, assistant from its first message on, isLoading is true
\* exactly while the last message is a user's, with one request in flight,
\* and every user message gets its assistant message
C29_ChatAlternates ==
    /\ [](/\ \A k \in 1..Len(messages) :
                messages[k].role = IF k % 2 = 1 THEN "user" ELSE "assistant"
          /\ isLoading <=> lastIsUser
          /\ Cardinality(liveRequests) = IF isLoading THEN 1 ELSE 0
          /\ \A j, k \in 1..Len(messages) : messages[j].id = messages[k].id => j = k)
    /\ [][ /\ last'.op = "handleSendMessage"
               => LET text == trim(coalesce(last'.arg, input))
                  IN  IF text = "" \/ isLoading
                      THEN last'.out = "return" /\ UNCHANGED chatVars
                      ELSE /\ last'.out = "sent"
                           /\ Len(messages') = Len(messages) + 1
                           /\ SubSeq(messages', 1, Len(messages)) = messages
                           /\ messages'[Len(messages')].role = "user"
                           /\ messages'[Len(messages')].content = text
                           /\ isLoading' /\ input' = ""
           /\ last'.op = "chatSettle" /\ last'.out \in {"reply", "throw"}
               => /\ isLoading /\ ~isLoading'
                  /\ Len(messages') = Len(messages) + 1
                  /\ SubSeq(messages', 1, Len(messages)) = messages
                  /\ messages'[Len(messages')].role = "assistant"
                  /\ messages'[Len(messages')].content
                        = IF last'.out = "reply" THEN last'.arg.json.value.reply
                          ELSE MSG_SORRY \o last'.msg
           /\ messages' # messages
               => \/ last'.op \in {"handleSendMessage", "chatSettle"}
                  \/ messages' = <<>>
         ]_vars
    /\ (lastIsUser ~> ~lastIsUser)

\* a question answered by the reply, a second one in flight, and a send made
\* meanwhile that was ignored
C29_Witness ==
    /\ last.op = "handleSendMessage" /\ last.out = "return"
    /\ isLoading
    /\ Len(messages) = 3
    /\ messages[2].role = "assistant"
    /\ messages[2].content = "You are doing well."
    /\ messages[3].role = "user"
    /\ messages[3].content = "Any news?"

====
